---- MODULE Spec2Model ----
(***************************************************************************)
(* ProfileManager of src/src/s3/credentials.rs: loading AWS profiles from  *)
(* the credentials file and the config file, classifying them and          *)
(* validating them.                                                        *)
(*                                                                         *)
(* A Rust String is a sequence of one-character strings, so that trim,     *)
(* split_once, strip_prefix, format! and sort act on characters.  An       *)
(* Option<T> is a sequence of length at most one: <<>> is None, <<v>> is   *)
(* Some(v).  A file's content is the sequence of lines content.lines()     *)
(* yields.                                                                 *)
(***************************************************************************)
EXTENDS Integers, Sequences, FiniteSets, TLC

VARIABLES
    credentials_file,   \* ~/.aws/credentials: [status, lines]
    config_file,        \* ~/.aws/config: [status, lines]
    constructed,        \* a ProfileManager value exists (new returned Ok)
    profiles,           \* ProfileManager.profiles: name -> AwsProfile
    current_profile,    \* ProfileManager.current_profile: Option<String>
    last_call,          \* the public method that ran last
    last_result,        \* what it returned: "Ok" or "Err"
    in_validate_all     \* the call of validate_all_profiles in progress:
                        \* its position, the names its loop has left, and
                        \* visited and current of a chain walk

vars == << credentials_file, config_file, constructed, profiles,
           current_profile, last_call, last_result, in_validate_all >>

----------------------------------------------------------------------------
(* String literals of the source.                                          *)

\* "region"
K_region == <<"r", "e", "g", "i", "o", "n">>
\* "source_profile"
K_source_profile == <<"s", "o", "u", "r", "c", "e", "_", "p", "r", "o", "f", "i", "l", "e">>
\* "role_arn"
K_role_arn == <<"r", "o", "l", "e", "_", "a", "r", "n">>
\* "sso_start_url"
K_sso_start_url == <<"s", "s", "o", "_", "s", "t", "a", "r", "t", "_", "u", "r", "l">>
\* "sso_region"
K_sso_region == <<"s", "s", "o", "_", "r", "e", "g", "i", "o", "n">>
\* "sso_account_id"
K_sso_account_id == <<"s", "s", "o", "_", "a", "c", "c", "o", "u", "n", "t", "_", "i", "d">>
\* "sso_role_name"
K_sso_role_name == <<"s", "s", "o", "_", "r", "o", "l", "e", "_", "n", "a", "m", "e">>
\* "sso_session"
K_sso_session == <<"s", "s", "o", "_", "s", "e", "s", "s", "i", "o", "n">>
\* "external_id"
K_external_id == <<"e", "x", "t", "e", "r", "n", "a", "l", "_", "i", "d">>
\* "mfa_serial"
K_mfa_serial == <<"m", "f", "a", "_", "s", "e", "r", "i", "a", "l">>
\* "role_session_name"
K_role_session_name == <<"r", "o", "l", "e", "_", "s", "e", "s", "s", "i", "o", "n", "_", "n", "a", "m", "e">>
\* "credential_source"
K_credential_source == <<"c", "r", "e", "d", "e", "n", "t", "i", "a", "l", "_", "s", "o", "u", "r", "c", "e">>
\* "aws_access_key_id"
K_aws_access_key_id == <<"a", "w", "s", "_", "a", "c", "c", "e", "s", "s", "_", "k", "e", "y", "_", "i", "d">>
\* "aws_secret_access_key"
K_aws_secret_access_key == <<"a", "w", "s", "_", "s", "e", "c", "r", "e", "t", "_", "a", "c", "c", "e", "s", "s", "_", "k", "e", "y">>
\* "default"
S_default == <<"d", "e", "f", "a", "u", "l", "t">>
\* "profile "
S_profile_prefix == <<"p", "r", "o", "f", "i", "l", "e", " ">>
\* "sso-session "
S_sso_session_prefix == <<"s", "s", "o", "-", "s", "e", "s", "s", "i", "o", "n", " ">>
\* "Profile not found"
M_profile_not_found == <<"P", "r", "o", "f", "i", "l", "e", " ", "n", "o", "t", " ", "f", "o", "u", "n", "d">>
\* "Profile type could not be determined - may use environment or instance credentials"
M_unknown == <<"P", "r", "o", "f", "i", "l", "e", " ", "t", "y", "p", "e", " ", "c", "o", "u", "l", "d", " ", "n", "o", "t", " ", "b", "e", " ", "d", "e", "t", "e", "r", "m", "i", "n", "e", "d", " ", "-", " ", "m", "a", "y", " ", "u", "s", "e", " ", "e", "n", "v", "i", "r", "o", "n", "m", "e", "n", "t", " ", "o", "r", " ", "i", "n", "s", "t", "a", "n", "c", "e", " ", "c", "r", "e", "d", "e", "n", "t", "i", "a", "l", "s">>
\* "SSO profile missing sso_account_id"
M_sso_missing_account == <<"S", "S", "O", " ", "p", "r", "o", "f", "i", "l", "e", " ", "m", "i", "s", "s", "i", "n", "g", " ", "s", "s", "o", "_", "a", "c", "c", "o", "u", "n", "t", "_", "i", "d">>
\* "SSO profile missing sso_role_name"
M_sso_missing_role == <<"S", "S", "O", " ", "p", "r", "o", "f", "i", "l", "e", " ", "m", "i", "s", "s", "i", "n", "g", " ", "s", "s", "o", "_", "r", "o", "l", "e", "_", "n", "a", "m", "e">>
\* "SSO profile missing: "
M_sso_missing_prefix == <<"S", "S", "O", " ", "p", "r", "o", "f", "i", "l", "e", " ", "m", "i", "s", "s", "i", "n", "g", ":", " ">>
\* ", "
M_comma == <<",", " ">>
\* "Assume-role profile missing role_arn"
M_missing_role_arn == <<"A", "s", "s", "u", "m", "e", "-", "r", "o", "l", "e", " ", "p", "r", "o", "f", "i", "l", "e", " ", "m", "i", "s", "s", "i", "n", "g", " ", "r", "o", "l", "e", "_", "a", "r", "n">>
\* "Assume-role profile needs source_profile or credential_source"
M_needs_source == <<"A", "s", "s", "u", "m", "e", "-", "r", "o", "l", "e", " ", "p", "r", "o", "f", "i", "l", "e", " ", "n", "e", "e", "d", "s", " ", "s", "o", "u", "r", "c", "e", "_", "p", "r", "o", "f", "i", "l", "e", " ", "o", "r", " ", "c", "r", "e", "d", "e", "n", "t", "i", "a", "l", "_", "s", "o", "u", "r", "c", "e">>
\* "Circular dependency in assume-role chain: "
M_circular_prefix == <<"C", "i", "r", "c", "u", "l", "a", "r", " ", "d", "e", "p", "e", "n", "d", "e", "n", "c", "y", " ", "i", "n", " ", "a", "s", "s", "u", "m", "e", "-", "r", "o", "l", "e", " ", "c", "h", "a", "i", "n", ":", " ">>
\* " -> "
M_arrow == <<" ", "-", ">", " ">>
\* "Source profile '"
M_source_prefix == <<"S", "o", "u", "r", "c", "e", " ", "p", "r", "o", "f", "i", "l", "e", " ", "'">>
\* "' not found"
M_not_found_suffix == <<"'", " ", "n", "o", "t", " ", "f", "o", "u", "n", "d">>

\* The ASCII characters the model's strings are made of, in code order: a
\* character's position orders it as its byte does.
Ascii ==
    << " ", "#", "'", ",", "-", ".", "/", "0", "1", "2", "3", "4", "5", "6", "7", "8",
       "9", ":", ";", "=", ">", "A", "B", "C", "D", "E", "F", "G", "H", "I", "J", "K",
       "L", "M", "N", "O", "P", "Q", "R", "S", "T", "U", "V", "W", "X", "Y", "Z", "[",
       "]", "_", "a", "b", "c", "d", "e", "f", "g", "h", "i", "j", "k", "l", "m", "n",
       "o", "p", "q", "r", "s", "t", "u", "v", "w", "x", "y", "z" >>

----------------------------------------------------------------------------
(* Option<T>.                                                              *)

None == << >>

Some(v) == << v >>

is_some(o) == Len(o) = 1

is_none(o) == Len(o) = 0

unwrap(o) == o[1]

----------------------------------------------------------------------------
(* str and Vec<String> methods the source uses.                            *)

Code(c) == CHOOSE i \in 1..Len(Ascii) : Ascii[i] = c

\* char::is_whitespace, on the characters of the model
is_whitespace(c) == c = " "

RECURSIVE trim_start(_)
trim_start(s) ==
    IF Len(s) > 0 /\ is_whitespace(s[1]) THEN trim_start(Tail(s)) ELSE s

RECURSIVE trim_end(_)
trim_end(s) ==
    IF Len(s) > 0 /\ is_whitespace(s[Len(s)])
    THEN trim_end(SubSeq(s, 1, Len(s) - 1))
    ELSE s

trim(s) == trim_end(trim_start(s))

is_empty(s) == Len(s) = 0

starts_with_char(s, c) == Len(s) > 0 /\ s[1] = c

ends_with_char(s, c) == Len(s) > 0 /\ s[Len(s)] = c

starts_with(s, prefix) ==
    Len(s) >= Len(prefix) /\ SubSeq(s, 1, Len(prefix)) = prefix

\* str::strip_prefix: Some(rest) when s starts with prefix, else None
strip_prefix(s, prefix) ==
    IF starts_with(s, prefix)
    THEN Some(SubSeq(s, Len(prefix) + 1, Len(s)))
    ELSE None

\* str::split_once(c): Some(<<before, after>>) at the first c, else None
split_once(s, c) ==
    IF \E i \in 1..Len(s) : s[i] = c
    THEN LET i == CHOOSE k \in 1..Len(s) :
                      s[k] = c /\ \A j \in 1..(k - 1) : s[j] # c
         IN  Some(<< SubSeq(s, 1, i - 1), SubSeq(s, i + 1, Len(s)) >>)
    ELSE None

\* str::contains(needle)
contains(s, needle) ==
    \E i \in 0..(Len(s) - Len(needle)) :
        SubSeq(s, i + 1, i + Len(needle)) = needle

\* Vec::contains
vec_contains(v, x) == \E i \in 1..Len(v) : v[i] = x

\* [String]::join(sep)
RECURSIVE join(_, _)
join(v, sep) ==
    IF Len(v) = 0 THEN << >>
    ELSE IF Len(v) = 1 THEN v[1]
    ELSE v[1] \o sep \o join(Tail(v), sep)

\* Ord for String: lexicographic on the bytes
RECURSIVE str_lt(_, _)
str_lt(a, b) ==
    IF Len(b) = 0 THEN FALSE
    ELSE IF Len(a) = 0 THEN TRUE
    ELSE IF a[1] = b[1] THEN str_lt(Tail(a), Tail(b))
    ELSE Code(a[1]) < Code(b[1])

\* Vec::insert(pos, x), pos counted from 0
vec_insert(v, pos, x) == SubSeq(v, 1, pos) \o << x >> \o SubSeq(v, pos + 1, Len(v))

\* Vec::remove(pos), pos counted from 0
vec_remove(v, pos) == SubSeq(v, 1, pos) \o SubSeq(v, pos + 2, Len(v))

\* [String]::sort: the ascending arrangement of v (insertion of each
\* element after the elements not greater than it)
RECURSIVE sort(_)
sort(v) ==
    IF Len(v) <= 1 THEN v
    ELSE LET rest == sort(Tail(v))
             x    == v[1]
             n    == Cardinality({ i \in 1..Len(rest) : str_lt(rest[i], x) })
         IN  vec_insert(rest, n, x)

----------------------------------------------------------------------------
(* HashMap<String, AwsProfile>: a function from the keys to the records.   *)

EmptyMap == << >>

contains_key(m, k) == k \in DOMAIN m

\* HashMap::insert: the value of k is replaced
map_insert(m, k, v) == [n \in DOMAIN m \cup {k} |-> IF n = k THEN v ELSE m[n]]

\* the entry written whether or not the key is there
or_insert_replacing(m, k, v) == map_insert(m, k, v)

\* HashMap::entry(k).or_insert_with(v): an occupied entry is left alone
or_insert_with(m, k, v) == IF contains_key(m, k) THEN m ELSE map_insert(m, k, v)

\* HashMap::keys().cloned().collect(): the keys in one (unspecified) order
RECURSIVE keys_of(_)
keys_of(S) ==
    IF S = {} THEN << >>
    ELSE LET k == CHOOSE x \in S : TRUE
         IN  << k >> \o keys_of(S \ {k})

keys(m) == keys_of(DOMAIN m)

----------------------------------------------------------------------------
(* AwsProfile and its Default.                                             *)

ProfileTypes ==
    { "StaticCredentials", "AssumeRole", "Sso", "Environment", "Default", "Unknown" }

DefaultAwsProfile ==
    [ name                   |-> << >>,
      profile_type           |-> "Unknown",
      region                 |-> None,
      source_profile         |-> None,
      role_arn               |-> None,
      sso_start_url          |-> None,
      sso_region             |-> None,
      sso_account_id         |-> None,
      sso_role_name          |-> None,
      sso_session            |-> None,
      external_id            |-> None,
      mfa_serial             |-> None,
      role_session_name      |-> None,
      credential_source      |-> None,
      has_static_credentials |-> FALSE,
      is_valid               |-> TRUE,
      error_message          |-> None ]

\* AwsProfile { name, ..Default::default() }
NamedProfile(name) == [DefaultAwsProfile EXCEPT !.name = name]

----------------------------------------------------------------------------
(* The files.  status is "absent" (Path::exists is false), "unreadable"    *)
(* (the file exists and read_to_string fails) or "readable".               *)

FileStatus == { "absent", "unreadable", "readable" }

AbsentFile == [status |-> "absent", lines |-> << >>]

UnreadableFile == [status |-> "unreadable", lines |-> << >>]

ReadableFile(lines) == [status |-> "readable", lines |-> lines]

exists(file) == file.status # "absent"

\* a line the parsers skip: empty, or a comment
skipped_line(line) ==
    is_empty(line) \/ starts_with_char(line, "#") \/ starts_with_char(line, ";")

is_header(line) == starts_with_char(line, "[") /\ ends_with_char(line, "]")

\* &line[1..line.len() - 1]
between_brackets(line) == SubSeq(line, 2, Len(line) - 1)

----------------------------------------------------------------------------
(* parse_config_file                                                       *)

\* the profile a config section header names, if any
config_section_profile(section) ==
    IF section = S_default THEN Some(S_default)
    ELSE IF is_some(strip_prefix(section, S_profile_prefix))
         THEN Some(trim(unwrap(strip_prefix(section, S_profile_prefix))))
    ELSE IF starts_with(section, S_sso_session_prefix) THEN None
    ELSE None

\* match key { ... } of parse_config_file
set_config_key(profile, key, value) ==
    CASE key = K_region            -> [profile EXCEPT !.region = Some(value)]
      [] key = K_source_profile    -> [profile EXCEPT !.source_profile = Some(value)]
      [] key = K_role_arn          -> [profile EXCEPT !.role_arn = Some(value)]
      [] key = K_sso_start_url     -> [profile EXCEPT !.sso_start_url = Some(value)]
      [] key = K_sso_region        -> [profile EXCEPT !.sso_region = Some(value)]
      [] key = K_sso_account_id    -> [profile EXCEPT !.sso_account_id = Some(value)]
      [] key = K_sso_role_name     -> [profile EXCEPT !.sso_role_name = Some(value)]
      [] key = K_sso_session       -> [profile EXCEPT !.sso_session = Some(value)]
      [] key = K_external_id       -> [profile EXCEPT !.external_id = Some(value)]
      [] key = K_mfa_serial        -> [profile EXCEPT !.mfa_serial = Some(value)]
      [] key = K_role_session_name -> [profile EXCEPT !.role_session_name = Some(value)]
      [] key = K_credential_source -> [profile EXCEPT !.credential_source = Some(value)]
      [] OTHER                     -> profile

\* the iteration in which a header that names no profile leaves the
\* section of the profile before it open
config_line_section_kept(st, raw) ==
    LET line == trim(raw)
    IN  IF skipped_line(line) THEN st
        ELSE IF is_header(line)
        THEN LET cur == config_section_profile(between_brackets(line))
             IN  [ profiles |->
                       IF is_some(cur)
                       THEN or_insert_with(st.profiles, unwrap(cur),
                                           NamedProfile(unwrap(cur)))
                       ELSE st.profiles,
                   current |-> IF is_some(cur) THEN cur ELSE st.current ]
        ELSE LET kv == split_once(line, "=")
             IN  IF is_some(kv) /\ is_some(st.current)
                    /\ contains_key(st.profiles, unwrap(st.current))
                 THEN LET key   == trim(unwrap(kv)[1])
                          value == trim(unwrap(kv)[2])
                          name  == unwrap(st.current)
                      IN  [ st EXCEPT !.profiles[name] =
                                set_config_key(@, key, value) ]
                 ELSE st

\* one iteration of the loop of parse_config_file; st is the registry and
\* the local current_profile
config_line(st, raw) ==
    LET line == trim(raw)
    IN  IF skipped_line(line) THEN st
        ELSE IF is_header(line)
        THEN LET cur == config_section_profile(between_brackets(line))
             IN  [ profiles |->
                       IF is_some(cur)
                       THEN or_insert_with(st.profiles, unwrap(cur),
                                           NamedProfile(unwrap(cur)))
                       ELSE st.profiles,
                   current |-> cur ]
        ELSE LET kv == split_once(line, "=")
             IN  IF is_some(kv) /\ is_some(st.current)
                    /\ contains_key(st.profiles, unwrap(st.current))
                 THEN LET key   == trim(unwrap(kv)[1])
                          value == trim(unwrap(kv)[2])
                          name  == unwrap(st.current)
                      IN  [ st EXCEPT !.profiles[name] =
                                set_config_key(@, key, value) ]
                 ELSE st

RECURSIVE config_lines(_, _)
config_lines(st, lines) ==
    IF Len(lines) = 0 THEN st
    ELSE config_lines(config_line(st, Head(lines)), Tail(lines))

\* Result<()> with the registry the call leaves
parse_config_file(p, file) ==
    IF file.status = "unreadable"
    THEN [profiles |-> p, result |-> "Err"]
    ELSE [ profiles |->
               config_lines([profiles |-> p, current |-> None], file.lines).profiles,
           result |-> "Ok" ]

----------------------------------------------------------------------------
(* parse_credentials_file                                                  *)

\* "Finalize previous profile" / "Finalize last profile"
finalize_profile(p, current, has_access_key, has_secret_key) ==
    IF is_some(current) /\ has_access_key /\ has_secret_key
       /\ contains_key(p, unwrap(current))
    THEN [p EXCEPT ![unwrap(current)].has_static_credentials = TRUE]
    ELSE p

\* the iteration with the two flags carried over a section header
credentials_line_flags_kept(st, raw) ==
    LET line == trim(raw)
    IN  IF skipped_line(line) THEN st
        ELSE IF is_header(line)
        THEN LET finalized == finalize_profile(st.profiles, st.current,
                                               st.has_access_key, st.has_secret_key)
                 name      == between_brackets(line)
             IN  [ profiles       |-> or_insert_with(finalized, name, NamedProfile(name)),
                   current        |-> Some(trim(name)),
                   has_access_key |-> st.has_access_key,
                   has_secret_key |-> st.has_secret_key ]
        ELSE LET kv == split_once(line, "=")
             IN  IF is_some(kv)
                 THEN LET key == trim(unwrap(kv)[1])
                      IN  CASE key = K_aws_access_key_id ->
                                   [st EXCEPT !.has_access_key = TRUE]
                            [] key = K_aws_secret_access_key ->
                                   [st EXCEPT !.has_secret_key = TRUE]
                            [] OTHER -> st
                 ELSE st

\* the iteration counting a key only when its value is not empty
credentials_line_value_required(st, raw) ==
    LET line == trim(raw)
    IN  IF skipped_line(line) THEN st
        ELSE IF is_header(line)
        THEN LET finalized == finalize_profile(st.profiles, st.current,
                                               st.has_access_key, st.has_secret_key)
                 name      == between_brackets(line)
             IN  [ profiles       |-> or_insert_with(finalized, name, NamedProfile(name)),
                   current        |-> Some(trim(name)),
                   has_access_key |-> FALSE,
                   has_secret_key |-> FALSE ]
        ELSE LET kv == split_once(line, "=")
             IN  IF is_some(kv) /\ ~is_empty(trim(unwrap(kv)[2]))
                 THEN LET key == trim(unwrap(kv)[1])
                      IN  CASE key = K_aws_access_key_id ->
                                   [st EXCEPT !.has_access_key = TRUE]
                            [] key = K_aws_secret_access_key ->
                                   [st EXCEPT !.has_secret_key = TRUE]
                            [] OTHER -> st
                 ELSE st

\* one iteration of the loop of parse_credentials_file
credentials_line(st, raw) ==
    LET line == trim(raw)
    IN  IF skipped_line(line) THEN st
        ELSE IF is_header(line)
        THEN LET finalized == finalize_profile(st.profiles, st.current,
                                               st.has_access_key, st.has_secret_key)
                 name      == between_brackets(line)
             IN  [ profiles       |-> or_insert_with(finalized, name, NamedProfile(name)),
                   current        |-> Some(trim(name)),
                   has_access_key |-> FALSE,
                   has_secret_key |-> FALSE ]
        ELSE LET kv == split_once(line, "=")
             IN  IF is_some(kv)
                 THEN LET key == trim(unwrap(kv)[1])
                      IN  CASE key = K_aws_access_key_id ->
                                   [st EXCEPT !.has_access_key = TRUE]
                            [] key = K_aws_secret_access_key ->
                                   [st EXCEPT !.has_secret_key = TRUE]
                            [] OTHER -> st
                 ELSE st

RECURSIVE credentials_lines(_, _)
credentials_lines(st, lines) ==
    IF Len(lines) = 0 THEN st
    ELSE credentials_lines(credentials_line(st, Head(lines)), Tail(lines))

parse_credentials_file(p, file) ==
    IF file.status = "unreadable"
    THEN [profiles |-> p, result |-> "Err"]
    ELSE LET st == credentials_lines(
                       [ profiles |-> p, current |-> None,
                         has_access_key |-> FALSE, has_secret_key |-> FALSE ],
                       file.lines)
         IN  [ profiles |-> finalize_profile(st.profiles, st.current,
                                             st.has_access_key, st.has_secret_key),
               result |-> "Ok" ]

----------------------------------------------------------------------------
(* load_profiles                                                           *)

\* load_profiles without the insertion of default
insert_default_skipped(p) == p

\* "Always add default profile"
insert_default(p) ==
    map_insert(p, S_default,
               [NamedProfile(S_default) EXCEPT !.profile_type = "Default"])

load_profiles(p, credentials, config) ==
    LET p0 == insert_default(p)
        r1 == IF exists(credentials)
              THEN parse_credentials_file(p0, credentials)
              ELSE [profiles |-> p0, result |-> "Ok"]
    IN  IF r1.result = "Err" THEN r1
        ELSE IF exists(config) THEN parse_config_file(r1.profiles, config)
        ELSE r1

----------------------------------------------------------------------------
(* determine_profile_type                                                  *)

\* determine_profile_type with the role_arn test before the SSO test
determine_profile_type_role_first(p, name) ==
    IF ~contains_key(p, name) THEN "Unknown"
    ELSE LET profile == p[name]
         IN  IF is_some(profile.role_arn) THEN "AssumeRole"
             ELSE IF is_some(profile.sso_start_url)
                \/ is_some(profile.sso_session)
                \/ (is_some(profile.sso_account_id) /\ is_some(profile.sso_role_name))
             THEN "Sso"
             ELSE IF profile.has_static_credentials THEN "StaticCredentials"
             ELSE IF is_some(profile.credential_source) THEN "Environment"
             ELSE IF name = S_default THEN "Default"
             ELSE "Unknown"

determine_profile_type(p, name) ==
    IF ~contains_key(p, name) THEN "Unknown"
    ELSE LET profile == p[name]
         IN  IF is_some(profile.sso_start_url)
                \/ is_some(profile.sso_session)
                \/ (is_some(profile.sso_account_id) /\ is_some(profile.sso_role_name))
             THEN "Sso"
             ELSE IF is_some(profile.role_arn) THEN "AssumeRole"
             ELSE IF profile.has_static_credentials THEN "StaticCredentials"
             ELSE IF is_some(profile.credential_source) THEN "Environment"
             ELSE IF name = S_default THEN "Default"
             ELSE "Unknown"

----------------------------------------------------------------------------
(* validate_sso_profile: (is_valid, error_message)                         *)

\* the Vec `missing` of the legacy branch
sso_missing(profile) ==
    (IF is_none(profile.sso_start_url) THEN << K_sso_start_url >> ELSE << >>)
    \o (IF is_none(profile.sso_region) THEN << K_sso_region >> ELSE << >>)
    \o (IF is_none(profile.sso_account_id) THEN << K_sso_account_id >> ELSE << >>)
    \o (IF is_none(profile.sso_role_name) THEN << K_sso_role_name >> ELSE << >>)

\* validate_sso_profile without the sso_session branch
validate_sso_profile_legacy_only(profile) ==
    IF Len(sso_missing(profile)) = 0
    THEN << TRUE, None >>
    ELSE << FALSE,
            Some(M_sso_missing_prefix \o join(sso_missing(profile), M_comma)) >>

validate_sso_profile(profile) ==
    IF is_some(profile.sso_session)
    THEN IF is_none(profile.sso_account_id)
         THEN << FALSE, Some(M_sso_missing_account) >>
         ELSE IF is_none(profile.sso_role_name)
         THEN << FALSE, Some(M_sso_missing_role) >>
         ELSE << TRUE, None >>
    ELSE IF Len(sso_missing(profile)) = 0
         THEN << TRUE, None >>
         ELSE << FALSE,
                 Some(M_sso_missing_prefix \o join(sso_missing(profile), M_comma)) >>

----------------------------------------------------------------------------
(* validate_assume_role_chain: Result<(), String>                          *)

Ok == [is_ok |-> TRUE, err |-> << >>]

Err(e) == [is_ok |-> FALSE, err |-> e]

\* the loop without the test for the name default
RECURSIVE chain_loop_no_default(_, _, _)
chain_loop_no_default(p, visited, current) ==
    IF vec_contains(visited, current)
    THEN Err(M_circular_prefix \o join(visited, M_arrow) \o M_arrow \o current)
    ELSE IF ~contains_key(p, current)
    THEN Err(M_source_prefix \o current \o M_not_found_suffix)
    ELSE LET profile == p[current]
         IN  IF profile.has_static_credentials THEN Ok
             ELSE IF profile.profile_type = "Sso" THEN Ok
             ELSE IF is_some(profile.credential_source) THEN Ok
             ELSE IF is_some(profile.source_profile)
             THEN chain_loop_no_default(p, Append(visited, current),
                                        unwrap(profile.source_profile))
             ELSE Ok

\* the loop with a missing source profile accepted
RECURSIVE chain_loop_missing_ok(_, _, _)
chain_loop_missing_ok(p, visited, current) ==
    IF vec_contains(visited, current)
    THEN Err(M_circular_prefix \o join(visited, M_arrow) \o M_arrow \o current)
    ELSE IF ~contains_key(p, current) THEN Ok
    ELSE LET profile == p[current]
         IN  IF profile.has_static_credentials THEN Ok
             ELSE IF profile.profile_type = "Sso" THEN Ok
             ELSE IF is_some(profile.credential_source) THEN Ok
             ELSE IF current = S_default THEN Ok
             ELSE IF is_some(profile.source_profile)
             THEN chain_loop_missing_ok(p, Append(visited, current),
                                        unwrap(profile.source_profile))
             ELSE Ok

\* the loop turning down a profile that has nothing and names no source
RECURSIVE chain_loop_open_end_rejected(_, _, _)
chain_loop_open_end_rejected(p, visited, current) ==
    IF vec_contains(visited, current)
    THEN Err(M_circular_prefix \o join(visited, M_arrow) \o M_arrow \o current)
    ELSE IF ~contains_key(p, current)
    THEN Err(M_source_prefix \o current \o M_not_found_suffix)
    ELSE LET profile == p[current]
         IN  IF profile.has_static_credentials THEN Ok
             ELSE IF profile.profile_type = "Sso" THEN Ok
             ELSE IF is_some(profile.credential_source) THEN Ok
             ELSE IF current = S_default THEN Ok
             ELSE IF is_some(profile.source_profile)
             THEN chain_loop_open_end_rejected(p, Append(visited, current),
                                               unwrap(profile.source_profile))
             ELSE Err(M_needs_source)

\* the loop turning down a profile that is marked invalid
RECURSIVE chain_loop_needing_valid(_, _, _)
chain_loop_needing_valid(p, visited, current) ==
    IF vec_contains(visited, current)
    THEN Err(M_circular_prefix \o join(visited, M_arrow) \o M_arrow \o current)
    ELSE IF ~contains_key(p, current)
    THEN Err(M_source_prefix \o current \o M_not_found_suffix)
    ELSE LET profile == p[current]
         IN  IF ~profile.is_valid
             THEN Err(M_source_prefix \o current \o M_not_found_suffix)
             ELSE IF profile.has_static_credentials THEN Ok
             ELSE IF profile.profile_type = "Sso" THEN Ok
             ELSE IF is_some(profile.credential_source) THEN Ok
             ELSE IF current = S_default THEN Ok
             ELSE IF is_some(profile.source_profile)
             THEN chain_loop_needing_valid(p, Append(visited, current),
                                           unwrap(profile.source_profile))
             ELSE Ok

\* the loop, entered with the locals visited and current
RECURSIVE chain_loop(_, _, _)
chain_loop(p, visited, current) ==
    IF vec_contains(visited, current)
    THEN Err(M_circular_prefix \o join(visited, M_arrow) \o M_arrow \o current)
    ELSE IF ~contains_key(p, current)
    THEN Err(M_source_prefix \o current \o M_not_found_suffix)
    ELSE LET profile == p[current]
         IN  IF profile.has_static_credentials THEN Ok
             ELSE IF profile.profile_type = "Sso" THEN Ok
             ELSE IF is_some(profile.credential_source) THEN Ok
             ELSE IF current = S_default THEN Ok
             ELSE IF is_some(profile.source_profile)
             THEN chain_loop(p, Append(visited, current), unwrap(profile.source_profile))
             ELSE Ok

\* validate_assume_role_chain with visited starting empty
validate_assume_role_chain_unseeded(p, start, source) == chain_loop(p, << >>, source)

validate_assume_role_chain(p, start, source) == chain_loop(p, << start >>, source)

----------------------------------------------------------------------------
(* validate_assume_role_profile, validate_profile                          *)

\* validate_assume_role_profile without the test for a missing source
validate_assume_role_profile_unchecked(p, profile) ==
    IF is_none(profile.role_arn)
    THEN << FALSE, Some(M_missing_role_arn) >>
    ELSE IF is_some(profile.source_profile)
    THEN LET r == validate_assume_role_chain(p, profile.name,
                                             unwrap(profile.source_profile))
         IN  IF r.is_ok THEN << TRUE, None >> ELSE << FALSE, Some(r.err) >>
    ELSE << TRUE, None >>

\* validate_assume_role_profile that accepts source_profile only
validate_assume_role_profile_source_only(p, profile) ==
    IF is_none(profile.role_arn)
    THEN << FALSE, Some(M_missing_role_arn) >>
    ELSE IF is_none(profile.source_profile)
    THEN << FALSE, Some(M_needs_source) >>
    ELSE LET r == validate_assume_role_chain(p, profile.name,
                                             unwrap(profile.source_profile))
         IN  IF r.is_ok THEN << TRUE, None >> ELSE << FALSE, Some(r.err) >>

validate_assume_role_profile(p, profile) ==
    IF is_none(profile.role_arn)
    THEN << FALSE, Some(M_missing_role_arn) >>
    ELSE IF is_none(profile.source_profile) /\ is_none(profile.credential_source)
    THEN << FALSE, Some(M_needs_source) >>
    ELSE IF is_some(profile.source_profile)
    THEN LET r == validate_assume_role_chain(p, profile.name,
                                             unwrap(profile.source_profile))
         IN  IF r.is_ok THEN << TRUE, None >> ELSE << FALSE, Some(r.err) >>
    ELSE << TRUE, None >>

\* validate_profile with the note of the Unknown arm on the Environment arm too
validate_profile_environment_noted(p, name) ==
    IF ~contains_key(p, name) THEN << FALSE, Some(M_profile_not_found) >>
    ELSE LET profile == p[name]
         IN  CASE profile.profile_type = "Sso" -> validate_sso_profile(profile)
               [] profile.profile_type = "AssumeRole" ->
                      validate_assume_role_profile(p, profile)
               [] profile.profile_type = "StaticCredentials" -> << TRUE, None >>
               [] profile.profile_type = "Environment" -> << TRUE, Some(M_unknown) >>
               [] profile.profile_type = "Default" -> << TRUE, None >>
               [] profile.profile_type = "Unknown" -> << TRUE, Some(M_unknown) >>

\* validate_profile with the Unknown arm as silent as the arms before it
validate_profile_unknown_silent(p, name) ==
    IF ~contains_key(p, name) THEN << FALSE, Some(M_profile_not_found) >>
    ELSE LET profile == p[name]
         IN  CASE profile.profile_type = "Sso" -> validate_sso_profile(profile)
               [] profile.profile_type = "AssumeRole" ->
                      validate_assume_role_profile(p, profile)
               [] profile.profile_type = "StaticCredentials" -> << TRUE, None >>
               [] profile.profile_type = "Environment" -> << TRUE, None >>
               [] profile.profile_type = "Default" -> << TRUE, None >>
               [] profile.profile_type = "Unknown" -> << TRUE, None >>

\* validate_profile walking the chain of every profile that names a source
validate_profile_walking_all(p, name) ==
    IF ~contains_key(p, name) THEN << FALSE, Some(M_profile_not_found) >>
    ELSE LET profile == p[name]
             walk    == IF is_some(profile.source_profile)
                        THEN validate_assume_role_chain(p, profile.name,
                                                        unwrap(profile.source_profile))
                        ELSE Ok
         IN  IF profile.profile_type # "AssumeRole" /\ ~walk.is_ok
             THEN << FALSE, Some(walk.err) >>
             ELSE CASE profile.profile_type = "Sso" -> validate_sso_profile(profile)
                    [] profile.profile_type = "AssumeRole" ->
                           validate_assume_role_profile(p, profile)
                    [] profile.profile_type = "StaticCredentials" -> << TRUE, None >>
                    [] profile.profile_type = "Environment" -> << TRUE, None >>
                    [] profile.profile_type = "Default" -> << TRUE, None >>
                    [] profile.profile_type = "Unknown" -> << TRUE, Some(M_unknown) >>

validate_profile(p, name) ==
    IF ~contains_key(p, name) THEN << FALSE, Some(M_profile_not_found) >>
    ELSE LET profile == p[name]
         IN  CASE profile.profile_type = "Sso" -> validate_sso_profile(profile)
               [] profile.profile_type = "AssumeRole" ->
                      validate_assume_role_profile(p, profile)
               [] profile.profile_type = "StaticCredentials" -> << TRUE, None >>
               [] profile.profile_type = "Environment" -> << TRUE, None >>
               [] profile.profile_type = "Default" -> << TRUE, None >>
               [] profile.profile_type = "Unknown" -> << TRUE, Some(M_unknown) >>

----------------------------------------------------------------------------
(* validate_all_profiles                                                   *)

\* "First pass: determine profile types", over the names in the order given
RECURSIVE classify_pass(_, _)
classify_pass(p, names) ==
    IF Len(names) = 0 THEN p
    ELSE LET name == Head(names)
             profile_type == determine_profile_type(p, name)
         IN  classify_pass(
                 IF contains_key(p, name)
                 THEN [p EXCEPT ![name].profile_type = profile_type]
                 ELSE p,
                 Tail(names))

\* the second pass recording is_valid only, never the message
RECURSIVE validate_pass_verdict_only(_, _)
validate_pass_verdict_only(p, names) ==
    IF Len(names) = 0 THEN p
    ELSE LET name == Head(names)
             validation == validate_profile(p, name)
         IN  validate_pass_verdict_only(
                 IF contains_key(p, name)
                 THEN [p EXCEPT ![name].is_valid = validation[1]]
                 ELSE p,
                 Tail(names))

\* the second pass throwing away each profile it finds invalid
RECURSIVE validate_pass_dropping(_, _)
validate_pass_dropping(p, names) ==
    IF Len(names) = 0 THEN p
    ELSE LET name == Head(names)
             validation == validate_profile(p, name)
         IN  validate_pass_dropping(
                 IF contains_key(p, name)
                 THEN IF validation[1]
                      THEN [p EXCEPT ![name].is_valid = validation[1],
                                     ![name].error_message = validation[2]]
                      ELSE [ n \in DOMAIN p \ { name } |-> p[n] ]
                 ELSE p,
                 Tail(names))

\* "Second pass: validate each profile", over the names in the order given
RECURSIVE validate_pass(_, _)
validate_pass(p, names) ==
    IF Len(names) = 0 THEN p
    ELSE LET name == Head(names)
             validation == validate_profile(p, name)
         IN  validate_pass(
                 IF contains_key(p, name)
                 THEN [p EXCEPT ![name].is_valid = validation[1],
                                ![name].error_message = validation[2]]
                 ELSE p,
                 Tail(names))

validate_all_profiles(p) ==
    LET classified == classify_pass(p, keys(p))
    IN  validate_pass(classified, keys(classified))

----------------------------------------------------------------------------
(* The queries.                                                            *)

\* profile_names without the move of default to the front
profile_names_sorted_only(p) == sort(keys(p))

\* position(|n| n == "default"), counted from 0, as an Option
position_of_default(names) ==
    IF vec_contains(names, S_default)
    THEN Some((CHOOSE i \in 1..Len(names) :
                   names[i] = S_default /\ \A j \in 1..(i - 1) : names[j] # S_default) - 1)
    ELSE None

profile_names(p) ==
    LET names == sort(keys(p))
        pos   == position_of_default(names)
    IN  IF is_some(pos)
        THEN vec_insert(vec_remove(names, unwrap(pos)), 0, S_default)
        ELSE names

get_profile(p, name) == IF contains_key(p, name) THEN Some(p[name]) ELSE None

current_profile_data(p, cur) ==
    IF is_some(cur) /\ contains_key(p, unwrap(cur)) THEN Some(p[unwrap(cur)]) ELSE None

has_profiles(p) == DOMAIN p # {}

\* profiles.values(): the records, in the iteration order of the map
values(m) ==
    LET names == keys(m)
    IN  [ i \in 1..Len(names) |-> m[names[i]] ]

\* .filter(|p| p.is_valid).count()
RECURSIVE count_valid(_)
count_valid(records) ==
    IF Len(records) = 0 THEN 0
    ELSE (IF Head(records).is_valid THEN 1 ELSE 0) + count_valid(Tail(records))

valid_profile_count(p) == count_valid(values(p))

\* a Vec<&AwsProfile>: the records that are valid
valid_profiles(p) == SelectSeq(values(p), LAMBDA r : r.is_valid)

\* invalid_profiles taking every record with a message for invalid
invalid_profiles_by_message(p) ==
    SelectSeq(values(p), LAMBDA r : ~r.is_valid \/ is_some(r.error_message))

invalid_profiles(p) == SelectSeq(values(p), LAMBDA r : ~r.is_valid)

\* no call of validate_all_profiles is in progress
NotValidating == [pc |-> "idle", names |-> << >>, visited |-> << >>, current |-> << >>]

----------------------------------------------------------------------------
(* The public methods, as actions on one ProfileManager.                   *)

\* ProfileManager::new: a manager exists only when it returns Ok
New ==
    /\ ~constructed
    /\ LET r == load_profiles(EmptyMap, credentials_file, config_file)
       IN  IF r.result = "Err"
           THEN /\ constructed' = FALSE
                /\ profiles' = EmptyMap
           ELSE /\ constructed' = TRUE
                /\ profiles' = validate_all_profiles(r.profiles)
    /\ current_profile' = None
    /\ last_call' = "new"
    /\ last_result' = IF constructed' THEN "Ok" ELSE "Err"
    /\ UNCHANGED << credentials_file, config_file,
                    in_validate_all >>

\* ProfileManager::load_profiles, called on the manager
LoadProfiles ==
    /\ constructed
    /\ LET r == load_profiles(profiles, credentials_file, config_file)
       IN  /\ profiles' = r.profiles
           /\ last_result' = r.result
    /\ last_call' = "load_profiles"
    /\ UNCHANGED << credentials_file, config_file, constructed, current_profile,
                    in_validate_all >>

\* reload leaving an empty registry when load_profiles fails
Reload_emptied_on_error ==
    /\ constructed
    /\ LET r == load_profiles(EmptyMap, credentials_file, config_file)
       IN  /\ profiles' = IF r.result = "Err"
                          THEN EmptyMap
                          ELSE validate_all_profiles(r.profiles)
           /\ last_result' = r.result
    /\ last_call' = "reload"
    /\ UNCHANGED << credentials_file, config_file, constructed, current_profile,
                    in_validate_all >>

\* reload without profiles.clear()
Reload_without_clear ==
    /\ constructed
    /\ LET r == load_profiles(profiles, credentials_file, config_file)
       IN  /\ profiles' = IF r.result = "Err"
                          THEN r.profiles
                          ELSE validate_all_profiles(r.profiles)
           /\ last_result' = r.result
    /\ last_call' = "reload"
    /\ UNCHANGED << credentials_file, config_file, constructed, current_profile,
                    in_validate_all >>

\* ProfileManager::reload: clear, load_profiles?, validate_all_profiles
Reload ==
    /\ constructed
    /\ LET r == load_profiles(EmptyMap, credentials_file, config_file)
       IN  /\ profiles' = IF r.result = "Err"
                          THEN r.profiles
                          ELSE validate_all_profiles(r.profiles)
           /\ last_result' = r.result
    /\ last_call' = "reload"
    /\ UNCHANGED << credentials_file, config_file, constructed, current_profile,
                    in_validate_all >>

\* set_current_profile without the contains_key test
SetCurrentProfile_unchecked(name) ==
    /\ constructed
    /\ current_profile' = Some(name)
    /\ last_result' = "Ok"
    /\ last_call' = "set_current_profile"
    /\ UNCHANGED << credentials_file, config_file, constructed, profiles,
                    in_validate_all >>

\* ProfileManager::set_current_profile(name)
SetCurrentProfile(name) ==
    /\ constructed
    /\ IF contains_key(profiles, name)
       THEN /\ current_profile' = Some(name)
            /\ last_result' = "Ok"
       ELSE /\ current_profile' = current_profile
            /\ last_result' = "Err"
    /\ last_call' = "set_current_profile"
    /\ UNCHANGED << credentials_file, config_file, constructed, profiles,
                    in_validate_all >>

----------------------------------------------------------------------------
(* The environment: the user's files change between calls.                 *)

WriteCredentials(file) ==
    /\ credentials_file' = file
    /\ credentials_file' # credentials_file
    /\ UNCHANGED << config_file, constructed, profiles, current_profile,
                    last_call, last_result,
                    in_validate_all >>

WriteConfig(file) ==
    /\ config_file' = file
    /\ config_file' # config_file
    /\ UNCHANGED << credentials_file, constructed, profiles, current_profile,
                    last_call, last_result,
                    in_validate_all >>

----------------------------------------------------------------------------
(* Lines and files of the bounded inputs.                                  *)

header_line(section) == << "[" >> \o section \o << "]" >>

profile_header(name) == header_line(S_profile_prefix \o name)

kv_line(key, value) == key \o << "=" >> \o value

\* profile names of the inputs; N_m names no profile of any file
N_a == << "a" >>

N_b == << "b" >>

N_c == << "c" >>

N_d == << "d" >>

N_z == << "z" >>

N_m == << "m" >>

V_role == << "R" >>

\* the sequences over S of length at most n
RECURSIVE SeqsUpTo(_, _)
SeqsUpTo(S, n) ==
    IF n = 0 THEN { << >> }
    ELSE LET shorter == SeqsUpTo(S, n - 1)
         IN  shorter \cup { Append(s, x) : s \in shorter, x \in S }

FilesOver(S, n) ==
    { AbsentFile, UnreadableFile } \cup { ReadableFile(ls) : ls \in SeqsUpTo(S, n) }

MaxCredLines == 1

MaxConfLines == 2

LifeCredLines == { header_line(N_a), header_line(N_z) }

LifeConfLines == { profile_header(N_a), kv_line(K_role_arn, V_role) }

LifeCredFiles == FilesOver(LifeCredLines, MaxCredLines)

LifeConfFiles == FilesOver(LifeConfLines, MaxConfLines)

\* the names set_current_profile is called with
SelectNames == { S_default, N_a, N_z, N_m }

----------------------------------------------------------------------------
(* Spec: the life of a manager while the files change.                     *)

Init ==
    /\ credentials_file \in LifeCredFiles
    /\ config_file \in LifeConfFiles
    /\ constructed = FALSE
    /\ profiles = EmptyMap
    /\ current_profile = None
    /\ last_call = "none"
    /\ last_result = "none"
    /\ in_validate_all = NotValidating

Next ==
    \/ New
    \/ LoadProfiles
    \/ Reload
    \/ \E name \in SelectNames : SetCurrentProfile(name)
    \/ \E file \in LifeCredFiles : WriteCredentials(file)
    \/ \E file \in LifeConfFiles : WriteConfig(file)

Spec == Init /\ [][Next]_vars

----------------------------------------------------------------------------
(* ValidateSpec: new() on files written from bounded profile descriptions. *)
(* A description gives, per profile name, whether the files hold a section *)
(* for it, which fields the section sets and the source_profile it names.  *)

FieldTags ==
    { "sso_start_url", "sso_region", "sso_account_id", "sso_role_name",
      "sso_session", "role_arn", "credential_source", "static" }

NoSection == [present |-> FALSE, fields |-> {}, source |-> None]

Section(fields, source) == [present |-> TRUE, fields |-> fields, source |-> source]

\* the config keys a description's tags stand for, in the order written
ConfigKeyOrder ==
    << << "role_arn", K_role_arn >>,
       << "credential_source", K_credential_source >>,
       << "sso_start_url", K_sso_start_url >>,
       << "sso_region", K_sso_region >>,
       << "sso_account_id", K_sso_account_id >>,
       << "sso_role_name", K_sso_role_name >>,
       << "sso_session", K_sso_session >> >>

RECURSIVE field_lines(_, _)
field_lines(fields, i) ==
    IF i > Len(ConfigKeyOrder) THEN << >>
    ELSE (IF ConfigKeyOrder[i][1] \in fields
          THEN << kv_line(ConfigKeyOrder[i][2], << "v" >>) >>
          ELSE << >>)
         \o field_lines(fields, i + 1)

config_section_lines(name, d) ==
    IF ~d.present THEN << >>
    ELSE << IF name = S_default THEN header_line(S_default) ELSE profile_header(name) >>
         \o field_lines(d.fields, 1)
         \o (IF is_some(d.source)
             THEN << kv_line(K_source_profile, unwrap(d.source)) >>
             ELSE << >>)

credentials_section_lines(name, d) ==
    IF d.present /\ "static" \in d.fields
    THEN << header_line(name),
            kv_line(K_aws_access_key_id, << "K" >>),
            kv_line(K_aws_secret_access_key, << "S" >>) >>
    ELSE << >>

\* the names a description covers, in the order their sections are written
InputNames == << S_default, N_a, N_b, N_c, N_d >>

InputNameSet == { InputNames[i] : i \in 1..Len(InputNames) }

RECURSIVE concat_all(_)
concat_all(seqs) ==
    IF Len(seqs) = 0 THEN << >> ELSE Head(seqs) \o concat_all(Tail(seqs))

described_config(desc) ==
    ReadableFile(concat_all(
        [ i \in 1..Len(InputNames) |->
            config_section_lines(InputNames[i], desc[InputNames[i]]) ]))

described_credentials(desc) ==
    LET lines == concat_all(
                     [ i \in 1..Len(InputNames) |->
                         credentials_section_lines(InputNames[i], desc[InputNames[i]]) ])
    IN  IF Len(lines) = 0 THEN AbsentFile ELSE ReadableFile(lines)

\* the description that is f on the names f covers and has no section elsewhere
Describe(f) ==
    [ n \in InputNameSet |-> IF n \in DOMAIN f THEN f[n] ELSE NoSection ]

\* one profile (default or a) with every combination of fields, beside a
\* profile b that may refer back to a
ClassifyDescriptions ==
    { Describe((x :> Section(fs, src)) @@ (N_b :> other)) :
        x \in { S_default, N_a },
        fs \in SUBSET FieldTags,
        src \in { None, Some(N_m), Some(N_b) },
        other \in { NoSection, Section({ "role_arn" }, Some(N_a)) } }

MaxChainProfiles == 3

ChainNames == { InputNames[i] : i \in 2..(MaxChainProfiles + 1) }

\* an assume-role profile naming any source, or a profile a chain can end at
ChainShapes ==
    { Section({ "role_arn" }, Some(s)) : s \in ChainNames \cup { S_default, N_m } }
    \cup { Section({ "role_arn" }, None),
           Section({ }, None),
           Section({ "static" }, None),
           Section({ "credential_source" }, None),
           Section({ "sso_start_url" }, None),
           NoSection }

ChainDescriptions ==
    { Describe(f @@ (S_default :> dflt)) :
        f \in [ChainNames -> ChainShapes],
        dflt \in { NoSection, Section({ "role_arn" }, Some(N_a)) } }

InputDescriptions == ClassifyDescriptions \cup ChainDescriptions

ValidateInit ==
    /\ \E desc \in InputDescriptions :
           /\ credentials_file = described_credentials(desc)
           /\ config_file = described_config(desc)
    /\ constructed = FALSE
    /\ profiles = EmptyMap
    /\ current_profile = None
    /\ last_call = "none"
    /\ last_result = "none"
    /\ in_validate_all = NotValidating

ValidateNext ==
    \/ New
    \/ Reload

ValidateSpec == ValidateInit /\ [][ValidateNext]_vars

----------------------------------------------------------------------------
(* ParseSpec: new(), load_profiles() and reload() on files of a few lines  *)
(* drawn freely from the lines below, the other file being one of two      *)
(* fixed files.                                                            *)

V_access_key == << "A", "K", "I", "A" >>

V_secret_key == << "w", "J", "a", "l" >>

V_region == << "r" >>

V_region_other == << "q" >>

\* a header whose name is padded on both sides
padded_header(name) == header_line(<< " " >> \o name \o << " " >>)

ParseCredLines ==
    { header_line(N_a),
      header_line(S_default),
      padded_header(N_a),
      kv_line(K_aws_access_key_id, V_access_key),
      kv_line(K_aws_access_key_id, << >>),
      kv_line(K_aws_secret_access_key, V_secret_key) }

ParseConfLines ==
    { profile_header(N_a),
      header_line(S_default),
      header_line(S_sso_session_prefix \o << "s" >>),
      kv_line(K_region, V_region),
      kv_line(K_region, V_region_other),
      kv_line(K_role_arn, V_role) }

\* a key the config pass does not know
UnknownKey == << "o", "u", "t", "p", "u", "t" >>

\* config lines the pass has to ignore, around a profile section: a header
\* that is neither [default] nor [profile NAME], a key it does not know, a
\* line without "="
IgnoredConfLines ==
    { profile_header(N_a),
      header_line(N_a),
      kv_line(K_region, V_region),
      kv_line(UnknownKey, << "j" >>),
      K_region }

MaxParseLines == 4

\* credentials [a] with both keys, config [profile a] with a region
SampleCredentials ==
    ReadableFile(<< header_line(N_a),
                    kv_line(K_aws_access_key_id, V_access_key),
                    kv_line(K_aws_secret_access_key, V_secret_key) >>)

SampleConfig ==
    ReadableFile(<< profile_header(N_a), kv_line(K_region, V_region) >>)

ParseInputs ==
    { << ReadableFile(ls), conf >> :
        ls \in SeqsUpTo(ParseCredLines, MaxParseLines),
        conf \in { AbsentFile, SampleConfig } }
    \cup
    { << cred, ReadableFile(ls) >> :
        cred \in { AbsentFile, SampleCredentials },
        ls \in SeqsUpTo(ParseConfLines, MaxParseLines) }
    \cup
    { << AbsentFile, ReadableFile(ls) >> :
        ls \in SeqsUpTo(IgnoredConfLines, MaxParseLines) }

ParseInit ==
    /\ \E files \in ParseInputs :
           /\ credentials_file = files[1]
           /\ config_file = files[2]
    /\ constructed = FALSE
    /\ profiles = EmptyMap
    /\ current_profile = None
    /\ last_call = "none"
    /\ last_result = "none"
    /\ in_validate_all = NotValidating

ParseNext ==
    \/ New
    \/ LoadProfiles
    \/ Reload

ParseSpec == ParseInit /\ [][ParseNext]_vars

----------------------------------------------------------------------------
(* WalkSpec: new() with validate_all_profiles run loop iteration by loop    *)
(* iteration.  keys() of a HashMap comes in any order, so each of the two   *)
(* loops takes its names in an order chosen freely; the loop of             *)
(* validate_assume_role_chain is one step per iteration.                    *)

\* the orders keys() can yield the names of S in
Orders(S) ==
    { order \in [1..Cardinality(S) -> S] :
        \A i, j \in 1..Cardinality(S) : i # j => order[i] # order[j] }

\* the walk returned with result
Returned(result) == [returned |-> TRUE, result |-> result]

\* the walk goes round the loop again
Continue(visited, current) ==
    [returned |-> FALSE, visited |-> visited, current |-> current]

\* one iteration of the loop without the test for a cycle
chain_step_unvisited(p, visited, current) ==
    IF ~contains_key(p, current)
    THEN Returned(Err(M_source_prefix \o current \o M_not_found_suffix))
    ELSE LET profile == p[current]
         IN  IF profile.has_static_credentials THEN Returned(Ok)
             ELSE IF profile.profile_type = "Sso" THEN Returned(Ok)
             ELSE IF is_some(profile.credential_source) THEN Returned(Ok)
             ELSE IF current = S_default THEN Returned(Ok)
             ELSE IF is_some(profile.source_profile)
             THEN Continue(Append(visited, current), unwrap(profile.source_profile))
             ELSE Returned(Ok)

\* one iteration that also turns down a profile marked invalid
chain_step_needing_valid(p, visited, current) ==
    IF vec_contains(visited, current)
    THEN Returned(Err(M_circular_prefix \o join(visited, M_arrow) \o M_arrow \o current))
    ELSE IF ~contains_key(p, current)
    THEN Returned(Err(M_source_prefix \o current \o M_not_found_suffix))
    ELSE LET profile == p[current]
         IN  IF ~profile.is_valid
             THEN Returned(Err(M_source_prefix \o current \o M_not_found_suffix))
             ELSE IF profile.has_static_credentials THEN Returned(Ok)
             ELSE IF profile.profile_type = "Sso" THEN Returned(Ok)
             ELSE IF is_some(profile.credential_source) THEN Returned(Ok)
             ELSE IF current = S_default THEN Returned(Ok)
             ELSE IF is_some(profile.source_profile)
             THEN Continue(Append(visited, current), unwrap(profile.source_profile))
             ELSE Returned(Ok)

\* one iteration of the loop of validate_assume_role_chain
chain_step(p, visited, current) ==
    IF vec_contains(visited, current)
    THEN Returned(Err(M_circular_prefix \o join(visited, M_arrow) \o M_arrow \o current))
    ELSE IF ~contains_key(p, current)
    THEN Returned(Err(M_source_prefix \o current \o M_not_found_suffix))
    ELSE LET profile == p[current]
         IN  IF profile.has_static_credentials THEN Returned(Ok)
             ELSE IF profile.profile_type = "Sso" THEN Returned(Ok)
             ELSE IF is_some(profile.credential_source) THEN Returned(Ok)
             ELSE IF current = S_default THEN Returned(Ok)
             ELSE IF is_some(profile.source_profile)
             THEN Continue(Append(visited, current), unwrap(profile.source_profile))
             ELSE Returned(Ok)

\* validate_profile(name) gets as far as validate_assume_role_chain
calls_chain(profile) ==
    /\ profile.profile_type = "AssumeRole"
    /\ is_some(profile.role_arn)
    /\ is_some(profile.source_profile)

\* new() up to the first loop of validate_all_profiles
BeginNew ==
    /\ ~constructed
    /\ in_validate_all.pc = "idle"
    /\ LET r == load_profiles(EmptyMap, credentials_file, config_file)
       IN  IF r.result = "Err"
           THEN /\ profiles' = EmptyMap
                /\ last_call' = "new"
                /\ last_result' = "Err"
                /\ in_validate_all' = in_validate_all
           ELSE /\ profiles' = r.profiles
                /\ \E order \in Orders(DOMAIN r.profiles) :
                       in_validate_all' =
                           [NotValidating EXCEPT !.pc = "classify", !.names = order]
                /\ UNCHANGED << last_call, last_result >>
    /\ UNCHANGED << credentials_file, config_file, constructed, current_profile >>

\* the two passes made one: a profile is validated right after its type is set
ClassifyStep_validating ==
    /\ in_validate_all.pc = "classify"
    /\ Len(in_validate_all.names) > 0
    /\ LET name       == Head(in_validate_all.names)
           classified == [profiles EXCEPT
                              ![name].profile_type = determine_profile_type(profiles, name)]
           validation == validate_profile(classified, name)
       IN  profiles' = [classified EXCEPT ![name].is_valid = validation[1],
                                         ![name].error_message = validation[2]]
    /\ in_validate_all' = [in_validate_all EXCEPT !.names = Tail(@)]
    /\ UNCHANGED << credentials_file, config_file, constructed, current_profile,
                    last_call, last_result >>

\* one iteration of "First pass: determine profile types"
ClassifyStep ==
    /\ in_validate_all.pc = "classify"
    /\ Len(in_validate_all.names) > 0
    /\ LET name == Head(in_validate_all.names)
       IN  profiles' = [profiles EXCEPT
                            ![name].profile_type = determine_profile_type(profiles, name)]
    /\ in_validate_all' = [in_validate_all EXCEPT !.names = Tail(@)]
    /\ UNCHANGED << credentials_file, config_file, constructed, current_profile,
                    last_call, last_result >>

\* the first loop is over: the second collects keys() anew
BeginSecondPass ==
    /\ in_validate_all.pc = "classify"
    /\ Len(in_validate_all.names) = 0
    /\ \E order \in Orders(DOMAIN profiles) :
           in_validate_all' = [in_validate_all EXCEPT !.pc = "validate", !.names = order]
    /\ UNCHANGED << credentials_file, config_file, constructed, profiles,
                    current_profile, last_call, last_result >>

\* one iteration of "Second pass: validate each profile", up to the call of
\* validate_assume_role_chain if validate_profile makes it
ValidateStep ==
    /\ in_validate_all.pc = "validate"
    /\ Len(in_validate_all.names) > 0
    /\ LET name == Head(in_validate_all.names)
       IN  IF calls_chain(profiles[name])
           THEN /\ in_validate_all' =
                       [in_validate_all EXCEPT
                            !.pc = "walk",
                            !.visited = << profiles[name].name >>,
                            !.current = unwrap(profiles[name].source_profile)]
                /\ profiles' = profiles
           ELSE LET validation == validate_profile(profiles, name)
                IN  /\ profiles' = [profiles EXCEPT
                                        ![name].is_valid = validation[1],
                                        ![name].error_message = validation[2]]
                    /\ in_validate_all' = [in_validate_all EXCEPT !.names = Tail(@)]
    /\ UNCHANGED << credentials_file, config_file, constructed, current_profile,
                    last_call, last_result >>

\* one iteration of the loop of validate_assume_role_chain; when it returns,
\* validate_assume_role_profile turns the result into the pair that the
\* second pass records on the profile
WalkStep ==
    /\ in_validate_all.pc = "walk"
    /\ LET name == Head(in_validate_all.names)
           step == chain_step(profiles, in_validate_all.visited, in_validate_all.current)
       IN  IF step.returned
           THEN /\ profiles' =
                       [profiles EXCEPT
                            ![name].is_valid = step.result.is_ok,
                            ![name].error_message =
                                IF step.result.is_ok THEN None ELSE Some(step.result.err)]
                /\ in_validate_all' =
                       [in_validate_all EXCEPT !.pc = "validate", !.names = Tail(@),
                                               !.visited = << >>, !.current = << >>]
           ELSE /\ profiles' = profiles
                /\ in_validate_all' =
                       [in_validate_all EXCEPT !.visited = step.visited,
                                               !.current = step.current]
    /\ UNCHANGED << credentials_file, config_file, constructed, current_profile,
                    last_call, last_result >>

\* the second loop is over: new() returns Ok(manager)
FinishNew ==
    /\ in_validate_all.pc = "validate"
    /\ Len(in_validate_all.names) = 0
    /\ constructed' = TRUE
    /\ current_profile' = None
    /\ last_call' = "new"
    /\ last_result' = "Ok"
    /\ in_validate_all' = NotValidating
    /\ UNCHANGED << credentials_file, config_file, profiles >>

\* the names of the descriptions the walk is run on, and what the files
\* hold for each: an assume-role profile naming any source, or a profile a
\* walk can end at
WalkNames == { S_default, N_a, N_b }

WalkShapes ==
    { Section({ "role_arn" }, Some(s)) : s \in WalkNames \cup { N_m } }
    \cup { Section({ "role_arn" }, None),
           Section({ }, None),
           Section({ "static" }, None),
           Section({ "credential_source" }, None),
           Section({ "sso_start_url" }, None),
           NoSection }

WalkDescriptions == { Describe(f) : f \in [WalkNames -> WalkShapes] }

WalkInit ==
    /\ \E desc \in WalkDescriptions :
           /\ credentials_file = described_credentials(desc)
           /\ config_file = described_config(desc)
    /\ constructed = FALSE
    /\ profiles = EmptyMap
    /\ current_profile = None
    /\ last_call = "none"
    /\ last_result = "none"
    /\ in_validate_all = NotValidating

WalkNext ==
    \/ BeginNew
    \/ ClassifyStep
    \/ BeginSecondPass
    \/ ValidateStep
    \/ WalkStep
    \/ FinishNew

WalkSpec == WalkInit /\ [][WalkNext]_vars

----------------------------------------------------------------------------
(* Properties.                                                             *)

\* validate_all_profiles has run on the registry as it stands
Validated == constructed /\ last_call \in { "new", "reload" } /\ last_result = "Ok"

\* C1: once a manager exists, after every new, load_profiles and reload,
\* returning Ok or failing on a file read, default is a key of the registry.
C1_DefaultAlwaysPresent == constructed => contains_key(profiles, S_default)

\* C1 witness: a reload has failed on a file read and default is there.
C1_Witness ==
    /\ constructed
    /\ last_call = "reload"
    /\ last_result = "Err"
    /\ contains_key(profiles, S_default)

\* C2: profile_names lists every key of the registry once, default first,
\* the other names in ascending order.
C2_ProfileNamesOrder ==
    constructed =>
        LET names == profile_names(profiles)
        IN  /\ Len(names) = Cardinality(DOMAIN profiles)
            /\ { names[i] : i \in 1..Len(names) } = DOMAIN profiles
            /\ names[1] = S_default
            /\ \A i \in 2..(Len(names) - 1) : str_lt(names[i], names[i + 1])

\* C2 witness: a registry with a name below default and a name above it.
C2_Witness ==
    /\ constructed
    /\ DOMAIN profiles = { S_default, N_a, N_z }
    /\ profile_names(profiles) = << S_default, N_a, N_z >>

\* the variant the precedence order gives a record, from its own fields
FirstMatchingVariant(r) ==
    CASE is_some(r.sso_start_url) \/ is_some(r.sso_session)
         \/ (is_some(r.sso_account_id) /\ is_some(r.sso_role_name)) -> "Sso"
      [] OTHER ->
         CASE is_some(r.role_arn) -> "AssumeRole"
           [] OTHER ->
              CASE r.has_static_credentials -> "StaticCredentials"
                [] OTHER ->
                   CASE is_some(r.credential_source) -> "Environment"
                     [] OTHER -> IF r.name = S_default THEN "Default" ELSE "Unknown"

\* C3: after validate_all every profile's profile_type is the first matching
\* variant of SSO > AssumeRole > StaticCredentials > Environment > Default >
\* Unknown, computed from that profile's fields and name alone.
C3_TypeIsFirstMatch ==
    Validated =>
        \A n \in DOMAIN profiles :
            /\ profiles[n].name = n
            /\ profiles[n].profile_type = FirstMatchingVariant(profiles[n])

\* C3 witness: a profile with role_arn, static credentials and
\* credential_source is AssumeRole, and one that adds SSO fields is SSO.
C3_Witness ==
    /\ Validated
    /\ \E n \in DOMAIN profiles :
           /\ is_some(profiles[n].role_arn)
           /\ profiles[n].has_static_credentials
           /\ is_some(profiles[n].credential_source)
           /\ is_some(profiles[n].sso_session)
           /\ profiles[n].profile_type = "Sso"

\* the record has none of the field combinations that make a profile SSO
NoSsoFields(r) ==
    /\ is_none(r.sso_start_url)
    /\ is_none(r.sso_session)
    /\ ~(is_some(r.sso_account_id) /\ is_some(r.sso_role_name))

\* the message says that a source is needed
SaysSourceNeeded(msg) ==
    /\ is_some(msg)
    /\ contains(unwrap(msg), K_source_profile)
    /\ contains(unwrap(msg), K_credential_source)

\* C4 as stated: every profile with role_arn and neither source_profile nor
\* credential_source is invalid, with a message that a source is needed.
C4_Original ==
    Validated =>
        \A n \in DOMAIN profiles :
            (/\ is_some(profiles[n].role_arn)
             /\ is_none(profiles[n].source_profile)
             /\ is_none(profiles[n].credential_source))
            => (~profiles[n].is_valid /\ SaysSourceNeeded(profiles[n].error_message))

\* C4 amended: every profile with role_arn, neither source_profile nor
\* credential_source, and no SSO fields (so that it is classified AssumeRole)
\* is invalid, with a message that a source is needed.
C4_MissingSourceInvalid ==
    Validated =>
        \A n \in DOMAIN profiles :
            (/\ is_some(profiles[n].role_arn)
             /\ is_none(profiles[n].source_profile)
             /\ is_none(profiles[n].credential_source)
             /\ NoSsoFields(profiles[n]))
            => (~profiles[n].is_valid /\ SaysSourceNeeded(profiles[n].error_message))

\* C4 witness: an assume-role profile without a source, marked invalid.
C4_Witness ==
    /\ Validated
    /\ \E n \in DOMAIN profiles :
           /\ profiles[n].profile_type = "AssumeRole"
           /\ is_none(profiles[n].source_profile)
           /\ is_none(profiles[n].credential_source)
           /\ ~profiles[n].is_valid
           /\ SaysSourceNeeded(profiles[n].error_message)

\* the names source_profile leads through from n back to n, n first, when
\* every profile on the way is in the registry and has role_arn; << >> when
\* the references from n do not return to n that way
RECURSIVE CycleFrom(_, _, _)
CycleFrom(p, n, path) ==
    LET last == path[Len(path)]
    IN  IF ~contains_key(p, last) THEN << >>
        ELSE IF is_none(p[last].role_arn) \/ is_none(p[last].source_profile) THEN << >>
        ELSE LET next == unwrap(p[last].source_profile)
             IN  IF next = n THEN path
                 ELSE IF vec_contains(path, next) THEN << >>
                 ELSE CycleFrom(p, n, Append(path, next))

OnCycle(p, n) == Len(CycleFrom(p, n, << n >>)) > 0

\* the message reports a circular dependency whose path begins with n
SaysCircularFrom(msg, n) ==
    /\ is_some(msg)
    /\ starts_with(unwrap(msg), M_circular_prefix \o n \o M_arrow)

\* C5 as stated: every profile on a cycle of source_profile references among
\* profiles that each have role_arn is invalid, with a circular-dependency
\* message whose path begins with its own name.
C5_Original ==
    Validated =>
        \A n \in DOMAIN profiles :
            OnCycle(profiles, n)
            => (~profiles[n].is_valid /\ SaysCircularFrom(profiles[n].error_message, n))

\* a profile the walk passes through: not default, no static credentials, no
\* credential_source, no SSO fields
PassedThrough(r) ==
    /\ r.name # S_default
    /\ ~r.has_static_credentials
    /\ is_none(r.credential_source)
    /\ NoSsoFields(r)

\* C5 amended: every profile on such a cycle, when no profile of the cycle is
\* named default, has static credentials, has credential_source or has SSO
\* fields, is invalid with the circular-dependency message that lists the
\* cycle from its own name back to its own name.
C5_CycleInvalid ==
    Validated =>
        \A n \in DOMAIN profiles :
            LET cycle == CycleFrom(profiles, n, << n >>)
            IN  (/\ Len(cycle) > 0
                 /\ \A i \in 1..Len(cycle) : PassedThrough(profiles[cycle[i]]))
                => /\ ~profiles[n].is_valid
                   /\ profiles[n].error_message =
                          Some(M_circular_prefix \o join(cycle, M_arrow) \o M_arrow \o n)

\* C5 witness: a -> b -> c -> a, each invalid with its own path.
C5_Witness ==
    /\ Validated
    /\ { N_a, N_b, N_c } \subseteq DOMAIN profiles
    /\ CycleFrom(profiles, N_a, << N_a >>) = << N_a, N_b, N_c >>
    /\ CycleFrom(profiles, N_b, << N_b >>) = << N_b, N_c, N_a >>
    /\ \A n \in { N_a, N_b, N_c } :
           ~profiles[n].is_valid /\ SaysCircularFrom(profiles[n].error_message, n)

\* a profile at which the walk ends with success
Terminates(p, name) ==
    \/ p[name].has_static_credentials
    \/ p[name].profile_type = "Sso"
    \/ is_some(p[name].credential_source)
    \/ name = S_default

\* following source_profile from current, through profiles that exist and
\* are not in visited, reaches a profile at which the walk ends with success
RECURSIVE ReachesTerminator(_, _, _)
ReachesTerminator(p, visited, current) ==
    /\ current \notin visited
    /\ contains_key(p, current)
    /\ \/ Terminates(p, current)
       \/ /\ is_some(p[current].source_profile)
          /\ ReachesTerminator(p, visited \cup { current },
                               unwrap(p[current].source_profile))

\* the registry holds chain3 -> chain2 -> chain1 -> default (c -> b -> a ->
\* default), each with role_arn and nothing else
Chain3ToDefault(p) ==
    /\ { N_a, N_b, N_c, S_default } \subseteq DOMAIN p
    /\ \A n \in { N_a, N_b, N_c } :
           /\ is_some(p[n].role_arn)
           /\ NoSsoFields(p[n])
    /\ p[N_c].source_profile = Some(N_b)
    /\ p[N_b].source_profile = Some(N_a)
    /\ p[N_a].source_profile = Some(S_default)

\* C6: an AssumeRole profile with source_profile is valid whenever following
\* source_profile from it reaches, through existing and not yet visited
\* profiles, a profile with static credentials, an SSO profile, a profile with
\* credential_source or the profile default; chain3 -> chain2 -> chain1 ->
\* default makes all three valid.
C6_TerminatedChainValid ==
    Validated =>
        /\ \A n \in DOMAIN profiles :
               (/\ profiles[n].profile_type = "AssumeRole"
                /\ is_some(profiles[n].source_profile)
                /\ ReachesTerminator(profiles, { n }, unwrap(profiles[n].source_profile)))
               => (profiles[n].is_valid /\ is_none(profiles[n].error_message))
        /\ Chain3ToDefault(profiles) =>
               \A n \in { N_a, N_b, N_c } :
                   profiles[n].is_valid /\ is_none(profiles[n].error_message)

\* C6 witness: chain3 -> chain2 -> chain1 -> default with all three valid.
C6_Witness ==
    /\ Validated
    /\ Chain3ToDefault(profiles)
    /\ \A n \in { N_a, N_b, N_c } :
           profiles[n].profile_type = "AssumeRole" /\ profiles[n].is_valid

\* the name outside the registry that the walk from current runs into before
\* it ends, as an Option
RECURSIVE MissingOnWalk(_, _, _)
MissingOnWalk(p, visited, current) ==
    IF current \in visited THEN None
    ELSE IF ~contains_key(p, current) THEN Some(current)
    ELSE IF Terminates(p, current) THEN None
    ELSE IF is_some(p[current].source_profile)
    THEN MissingOnWalk(p, visited \cup { current }, unwrap(p[current].source_profile))
    ELSE None

\* new or reload ran last and neither file was unreadable
LoadedReadableFiles ==
    /\ last_call \in { "new", "reload" }
    /\ credentials_file.status # "unreadable"
    /\ config_file.status # "unreadable"

\* C7: an AssumeRole profile whose walk follows a source_profile reference to
\* a name that is no key of the registry, before any terminating profile, is
\* invalid with the message that this source profile was not found; new and
\* reload return Ok all the same.
C7_MissingSourceRecorded ==
    LoadedReadableFiles =>
        /\ last_result = "Ok"
        /\ \A n \in DOMAIN profiles :
               (/\ profiles[n].profile_type = "AssumeRole"
                /\ is_some(profiles[n].source_profile))
               => LET missing == MissingOnWalk(profiles, { n },
                                               unwrap(profiles[n].source_profile))
                  IN  is_some(missing)
                      => /\ ~profiles[n].is_valid
                         /\ profiles[n].error_message =
                                Some(M_source_prefix \o unwrap(missing)
                                     \o M_not_found_suffix)

\* C7 witness: b -> a -> m with m in no file; b is invalid, m is reported.
C7_Witness ==
    /\ Validated
    /\ { N_a, N_b } \subseteq DOMAIN profiles
    /\ N_m \notin DOMAIN profiles
    /\ profiles[N_b].profile_type = "AssumeRole"
    /\ profiles[N_b].source_profile = Some(N_a)
    /\ profiles[N_a].source_profile = Some(N_m)
    /\ ~profiles[N_b].is_valid
    /\ contains(unwrap(profiles[N_b].error_message), N_m \o M_not_found_suffix)

\* C8 as stated: every AssumeRole profile with credential_source is valid with
\* no error message, whatever its source_profile.
C8_Original ==
    Validated =>
        \A n \in DOMAIN profiles :
            (/\ profiles[n].profile_type = "AssumeRole"
             /\ is_some(profiles[n].credential_source))
            => (profiles[n].is_valid /\ is_none(profiles[n].error_message))

\* C8 amended: every AssumeRole profile with credential_source and without
\* source_profile is valid with no error message.
C8_CredentialSourceValid ==
    Validated =>
        \A n \in DOMAIN profiles :
            (/\ profiles[n].profile_type = "AssumeRole"
             /\ is_some(profiles[n].credential_source)
             /\ is_none(profiles[n].source_profile))
            => (profiles[n].is_valid /\ is_none(profiles[n].error_message))

\* C8 witness: role_arn with credential_source only, classified AssumeRole
\* and valid.
C8_Witness ==
    /\ Validated
    /\ \E n \in DOMAIN profiles :
           /\ profiles[n].profile_type = "AssumeRole"
           /\ is_some(profiles[n].credential_source)
           /\ is_none(profiles[n].source_profile)
           /\ profiles[n].is_valid
           /\ is_none(profiles[n].error_message)

\* C9: every profile with sso_session, sso_account_id and sso_role_name is
\* classified SSO and valid with no error message, with or without
\* sso_start_url and sso_region.
C9_SessionSsoValid ==
    Validated =>
        \A n \in DOMAIN profiles :
            (/\ is_some(profiles[n].sso_session)
             /\ is_some(profiles[n].sso_account_id)
             /\ is_some(profiles[n].sso_role_name))
            => /\ profiles[n].profile_type = "Sso"
               /\ profiles[n].is_valid
               /\ is_none(profiles[n].error_message)

\* C9 witness: such a profile without sso_start_url and sso_region, valid.
C9_Witness ==
    /\ Validated
    /\ \E n \in DOMAIN profiles :
           /\ is_some(profiles[n].sso_session)
           /\ is_some(profiles[n].sso_account_id)
           /\ is_some(profiles[n].sso_role_name)
           /\ is_none(profiles[n].sso_start_url)
           /\ is_none(profiles[n].sso_region)
           /\ profiles[n].profile_type = "Sso"
           /\ profiles[n].is_valid

\* the SSO fields a record must have, as << field name, value >> pairs
RequiredSsoFields(r) ==
    IF is_some(r.sso_session)
    THEN { << K_sso_account_id, r.sso_account_id >>,
           << K_sso_role_name, r.sso_role_name >> }
    ELSE { << K_sso_start_url, r.sso_start_url >>,
           << K_sso_region, r.sso_region >>,
           << K_sso_account_id, r.sso_account_id >>,
           << K_sso_role_name, r.sso_role_name >> }

\* the names of the SSO fields
SsoFieldNames ==
    { K_sso_start_url, K_sso_region, K_sso_account_id, K_sso_role_name, K_sso_session }

\* C10: the error message of an SSO profile that fails validation names every
\* required field that is missing and no field that is present.
C10_Original ==
    Validated =>
        \A n \in DOMAIN profiles :
            (profiles[n].profile_type = "Sso" /\ ~profiles[n].is_valid)
            => /\ is_some(profiles[n].error_message)
               /\ \A f \in RequiredSsoFields(profiles[n]) :
                      is_none(f[2]) <=> contains(unwrap(profiles[n].error_message), f[1])
               /\ \A k \in SsoFieldNames :
                      contains(unwrap(profiles[n].error_message), k)
                      => \E f \in RequiredSsoFields(profiles[n]) : f[1] = k /\ is_none(f[2])

----------------------------------------------------------------------------
(* The registry's invariants and the effect of the passes (C11 to C20).    *)

\* C11: in every state of a manager's life (after new, load_profiles,
\* reload and set_current_profile, failed calls included) every profile
\* with is_valid = false has an error_message that is set and not empty.
C11_InvalidHasMessage ==
    constructed =>
        \A n \in DOMAIN profiles :
            ~profiles[n].is_valid =>
                /\ is_some(profiles[n].error_message)
                /\ ~is_empty(unwrap(profiles[n].error_message))

\* C11 witness: load_profiles has run on a manager and left a profile that
\* an earlier validation marked invalid, its message still in place.
C11_Witness ==
    /\ constructed
    /\ last_call = "load_profiles"
    /\ \E n \in DOMAIN profiles :
           /\ ~profiles[n].is_valid
           /\ is_some(profiles[n].error_message)

\* C12: after validate_all every profile classified StaticCredentials,
\* Environment or Default has is_valid = true and no error_message.
C12_SimpleTypesValid ==
    Validated =>
        \A n \in DOMAIN profiles :
            profiles[n].profile_type \in { "StaticCredentials", "Environment", "Default" } =>
                /\ profiles[n].is_valid
                /\ is_none(profiles[n].error_message)

\* C12 witness: one validated registry holds a profile of each of the three
\* types, all valid and without a message.
C12_Witness ==
    /\ Validated
    /\ \A t \in { "StaticCredentials", "Environment", "Default" } :
           \E n \in DOMAIN profiles :
               /\ profiles[n].profile_type = t
               /\ profiles[n].is_valid
               /\ is_none(profiles[n].error_message)

\* C13: after validate_all every profile classified Unknown has
\* is_valid = true and an error_message that is set and not empty, so a
\* message on a profile does not mean the profile is invalid.
C13_UnknownValidWithMessage ==
    Validated =>
        \A n \in DOMAIN profiles :
            profiles[n].profile_type = "Unknown" =>
                /\ profiles[n].is_valid
                /\ is_some(profiles[n].error_message)
                /\ ~is_empty(unwrap(profiles[n].error_message))

\* C13 witness: a validated profile that is valid and carries a message.
C13_Witness ==
    /\ Validated
    /\ \E n \in DOMAIN profiles :
           /\ profiles[n].profile_type = "Unknown"
           /\ profiles[n].is_valid
           /\ is_some(profiles[n].error_message)

\* the lines a pass reads from a file
lines_read(file) == IF file.status = "readable" THEN file.lines ELSE << >>

\* the registry a fresh load holds once the credentials pass is over
AfterCredentialsPass == load_profiles(EmptyMap, credentials_file, AbsentFile).profiles

\* the config pass of a fresh load, line by line: entry k + 1 is the state
\* of the loop after k lines
RECURSIVE states_after(_, _)
states_after(st, lines) ==
    IF Len(lines) = 0 THEN << st >>
    ELSE << st >> \o states_after(config_line(st, Head(lines)), Tail(lines))

ConfigPassStates ==
    states_after([profiles |-> AfterCredentialsPass, current |-> None],
                 lines_read(config_file))

\* the fields of a record the config pass may set, each with its key
ConfigFieldKeys ==
    { << "region", K_region >>, << "source_profile", K_source_profile >>,
      << "role_arn", K_role_arn >>, << "sso_start_url", K_sso_start_url >>,
      << "sso_region", K_sso_region >>, << "sso_account_id", K_sso_account_id >>,
      << "sso_role_name", K_sso_role_name >>, << "sso_session", K_sso_session >>,
      << "external_id", K_external_id >>, << "mfa_serial", K_mfa_serial >>,
      << "role_session_name", K_role_session_name >>,
      << "credential_source", K_credential_source >> }

\* the fields validate_all_profiles writes
ValidationFields == { "profile_type", "is_valid", "error_message" }

\* raw is a key/value line whose trimmed key is key
SetsKey(raw, key) ==
    LET line == trim(raw)
    IN  /\ ~skipped_line(line)
        /\ ~is_header(line)
        /\ is_some(split_once(line, "="))
        /\ trim(unwrap(split_once(line, "="))[1]) = key

\* line k of the config file leaves every record it finds in the registry
\* as it was, but for the field whose key the line sets
ConfigLineKeeps(states, k) ==
    LET before == states[k].profiles
        after  == states[k + 1].profiles
        raw    == lines_read(config_file)[k]
    IN  \A n \in DOMAIN before :
            /\ n \in DOMAIN after
            /\ \A f \in DOMAIN before[n] :
                   after[n][f] # before[n][f] =>
                       \E fk \in ConfigFieldKeys : fk[1] = f /\ SetsKey(raw, fk[2])

\* C14: a profile named in both files is one record.  The config pass
\* keeps every record of the credentials pass, under the same name and
\* with the same has_static_credentials; each of its lines, a repeated
\* section header included, keeps every field of every record but the
\* field whose key the line itself sets; and the registry after the load
\* is the outcome of these lines.  For credentials [a] with both keys and
\* config [profile a] with a region the registry is default and a, and a
\* has has_static_credentials, the region, type StaticCredentials and is
\* valid.
C14_ConfigPassMerges ==
    Validated =>
        LET credentials_pass == AfterCredentialsPass
            states           == ConfigPassStates
            parsed           == states[Len(states)].profiles
        IN  /\ \A n \in DOMAIN profiles : profiles[n].name = n
            /\ \A n \in DOMAIN credentials_pass :
                   /\ n \in DOMAIN profiles
                   /\ profiles[n].has_static_credentials =
                          credentials_pass[n].has_static_credentials
            /\ \A k \in 1..Len(lines_read(config_file)) : ConfigLineKeeps(states, k)
            /\ DOMAIN profiles = DOMAIN parsed
            /\ \A n \in DOMAIN parsed :
                   \A f \in DOMAIN parsed[n] \ ValidationFields :
                       profiles[n][f] = parsed[n][f]
            /\ (credentials_file = SampleCredentials /\ config_file = SampleConfig) =>
                   /\ DOMAIN profiles = { S_default, N_a }
                   /\ profiles[N_a].has_static_credentials
                   /\ profiles[N_a].region = Some(V_region)
                   /\ profiles[N_a].profile_type = "StaticCredentials"
                   /\ profiles[N_a].is_valid

\* C14 witness: the load of credentials [a] with both keys and of a config
\* file that names a in two sections, the first setting a region, the
\* second a role_arn; a holds all three.
C14_Witness ==
    /\ Validated
    /\ credentials_file = SampleCredentials
    /\ lines_read(config_file) =
           << profile_header(N_a), kv_line(K_region, V_region),
              profile_header(N_a), kv_line(K_role_arn, V_role) >>
    /\ DOMAIN profiles = { S_default, N_a }
    /\ profiles[N_a].has_static_credentials
    /\ profiles[N_a].region = Some(V_region)
    /\ profiles[N_a].role_arn = Some(V_role)

\* line i of the credentials file is a section header
CredentialsHeaderAt(i) ==
    LET line == trim(lines_read(credentials_file)[i])
    IN  ~skipped_line(line) /\ is_header(line)

\* the section opened by the header at line i holds a line that sets key
SectionSetsKey(i, key) ==
    \E j \in (i + 1)..Len(lines_read(credentials_file)) :
        /\ \A k \in (i + 1)..j : ~CredentialsHeaderAt(k)
        /\ SetsKey(lines_read(credentials_file)[j], key)

\* one section of the credentials file, headed by name, holds both keys
SectionWithBothKeys(name) ==
    \E i \in 1..Len(lines_read(credentials_file)) :
        /\ CredentialsHeaderAt(i)
        /\ trim(between_brackets(trim(lines_read(credentials_file)[i]))) = name
        /\ SectionSetsKey(i, K_aws_access_key_id)
        /\ SectionSetsKey(i, K_aws_secret_access_key)

\* C15: after a load (new, load_profiles or reload) of the files as they
\* stand, has_static_credentials is true for a profile only if one section
\* of the credentials file, headed by the profile's name, holds both
\* aws_access_key_id and aws_secret_access_key; one key alone, the keys
\* split over two sections, keys before the first header and the config
\* file never set it.
C15_StaticNeedsBothKeysInOneSection ==
    (constructed /\ last_result = "Ok") =>
        \A n \in DOMAIN profiles :
            profiles[n].has_static_credentials => SectionWithBothKeys(n)

\* C15 witness: two sections named a, the first with the access key, the
\* second with the secret key, and after the load a is there without
\* has_static_credentials.
C15_Witness ==
    /\ constructed
    /\ last_result = "Ok"
    /\ lines_read(credentials_file) =
           << header_line(N_a), kv_line(K_aws_access_key_id, V_access_key),
              header_line(N_a), kv_line(K_aws_secret_access_key, V_secret_key) >>
    /\ contains_key(profiles, N_a)
    /\ ~profiles[N_a].has_static_credentials

\* a key/value line cut off right after its first "=", any other line as is
ValueErased(raw) ==
    LET line == trim(raw)
    IN  IF ~skipped_line(line) /\ ~is_header(line) /\ is_some(split_once(raw, "="))
        THEN unwrap(split_once(raw, "="))[1] \o << "=" >>
        ELSE raw

\* the credentials file with the same headers and keys and every value empty
ErasedCredentials ==
    [ credentials_file EXCEPT
        !.lines = [ i \in 1..Len(credentials_file.lines) |->
                      ValueErased(credentials_file.lines[i]) ] ]

\* the strings a record holds
StringsOf(r) ==
    { r.name }
    \cup { unwrap(r[fk[1]]) : fk \in { x \in ConfigFieldKeys : is_some(r[x[1]]) } }
    \cup { unwrap(r.error_message) : x \in { y \in { 1 } : is_some(r.error_message) } }

\* C19: the registry after new or reload is the registry the same call
\* builds from the credentials file with every value erased, so two
\* credentials files with the same headers and keys that differ only right
\* of "=" give the same registry; and no string of any record contains a
\* key value.
C19_KeyValuesNotRetained ==
    Validated =>
        /\ profiles =
               validate_all_profiles(
                   load_profiles(EmptyMap, ErasedCredentials, config_file).profiles)
        /\ \A n \in DOMAIN profiles :
               \A str \in StringsOf(profiles[n]) :
                   /\ ~contains(str, V_access_key)
                   /\ ~contains(str, V_secret_key)

\* C19 witness: a section with an access key of empty value and a secret
\* key has been loaded and its profile has has_static_credentials, as it
\* has when the access key has a value.
C19_Witness ==
    /\ Validated
    /\ lines_read(credentials_file) =
           << header_line(N_a), kv_line(K_aws_access_key_id, << >>),
              kv_line(K_aws_secret_access_key, V_secret_key) >>
    /\ ErasedCredentials # credentials_file
    /\ profiles[N_a].has_static_credentials

\* the registry new() builds from the two files
BuiltByNew(credentials, config) ==
    validate_all_profiles(load_profiles(EmptyMap, credentials, config).profiles)

\* the section names between the brackets of a file's header lines
SectionNames(file) ==
    { between_brackets(trim(lines_read(file)[i])) :
        i \in { j \in 1..Len(lines_read(file)) :
                   /\ ~skipped_line(trim(lines_read(file)[j]))
                   /\ is_header(trim(lines_read(file)[j])) } }

\* the profile names the two files hold
NamedInFiles(credentials, config) ==
    SectionNames(credentials)
    \cup { unwrap(config_section_profile(sec)) :
             sec \in { x \in SectionNames(config) : is_some(config_section_profile(x)) } }

\* C16: every reload that returns Ok leaves the registry new() builds from
\* the two files as they are at the reload, whatever the registry held
\* before; its keys are default and the names the files hold, so a profile
\* that is in neither file is gone.
C16_ReloadRebuilds ==
    [][ ( /\ constructed
          /\ last_call' = "reload"
          /\ last_result' = "Ok"
          /\ credentials_file' = credentials_file
          /\ config_file' = config_file )
        => /\ profiles' = BuiltByNew(credentials_file', config_file')
           /\ DOMAIN profiles' \subseteq
                  { S_default } \cup NamedInFiles(credentials_file', config_file') ]_vars

\* C16 witness: a reload has returned Ok and profile a, selected while it
\* was in the registry, is in neither file and not in the registry.
C16_Witness ==
    /\ last_call = "reload"
    /\ last_result = "Ok"
    /\ current_profile = Some(N_a)
    /\ N_a \notin NamedInFiles(credentials_file, config_file)
    /\ ~contains_key(profiles, N_a)
    /\ profiles = BuiltByNew(credentials_file, config_file)

\* C17: current_profile is unset at the start; every call of
\* set_current_profile(name) with name a key of the registry returns Ok and
\* makes current_profile name, every call with name absent returns Err and
\* leaves current_profile as it was, both leave the registry as it was;
\* and current_profile goes from unset to set only by a call that returns
\* Ok.
C17_SetCurrentProfile ==
    /\ current_profile = None
    /\ [][ /\ \A name \in SelectNames :
               SetCurrentProfile(name) =>
                   /\ profiles' = profiles
                   /\ IF contains_key(profiles, name)
                      THEN last_result' = "Ok" /\ current_profile' = Some(name)
                      ELSE last_result' = "Err" /\ current_profile' = current_profile
           /\ (is_none(current_profile) /\ is_some(current_profile')) =>
                  (last_call' = "set_current_profile" /\ last_result' = "Ok")
         ]_vars

\* C17 witness: a call with a name that is not in the registry has returned
\* Err and current_profile still names the profile selected before.
C17_Witness ==
    /\ last_call = "set_current_profile"
    /\ last_result = "Err"
    /\ current_profile = Some(N_a)
    /\ contains_key(profiles, N_a)

\* the registry a fresh load_profiles leaves, before validate_all_profiles
FreshlyLoaded == load_profiles(EmptyMap, credentials_file, config_file).profiles

\* the registry between the two passes of validate_all_profiles
FreshlyClassified == classify_pass(FreshlyLoaded, keys(FreshlyLoaded))

\* C18: after new or reload on files that can be read the call has
\* returned Ok; the registry has the keys load_profiles left and every
\* record has the fields load_profiles left but for profile_type, is_valid
\* and error_message; each record's is_valid and error_message are the
\* verdict on that profile in the registry as classified, whatever has been
\* recorded on other profiles; and every invalid profile is in
\* profile_names.
C18_InvalidityConfined ==
    LoadedReadableFiles =>
        LET loaded     == FreshlyLoaded
            classified == FreshlyClassified
            names      == profile_names(profiles)
        IN  /\ constructed
            /\ last_result = "Ok"
            /\ DOMAIN profiles = DOMAIN loaded
            /\ \A n \in DOMAIN loaded :
                   /\ n \in DOMAIN profiles
                   /\ \A f \in DOMAIN loaded[n] \ ValidationFields :
                          profiles[n][f] = loaded[n][f]
                   /\ << profiles[n].is_valid, profiles[n].error_message >> =
                          validate_profile(classified, n)
            /\ \A n \in DOMAIN profiles :
                   ~profiles[n].is_valid => vec_contains(names, n)

\* C18 witness: new or reload has returned Ok with three invalid profiles
\* and a valid one in the registry, all of them in profile_names.
C18_Witness ==
    /\ LoadedReadableFiles
    /\ last_result = "Ok"
    /\ Len(profile_names(profiles)) = 4
    /\ Cardinality({ n \in DOMAIN profiles : ~profiles[n].is_valid }) = 3
    /\ \A n \in DOMAIN profiles : vec_contains(profile_names(profiles), n)

\* the records of a Vec, as a set
Listed(records) == { records[i] : i \in 1..Len(records) }

\* C20: in every state of a manager valid_profiles and invalid_profiles
\* split the registry by is_valid: every record is in exactly one of the
\* two, once; valid_profile_count is the length of valid_profiles; and
\* valid_profile_count plus the length of invalid_profiles is the number of
\* profiles.
C20_ViewsPartition ==
    constructed =>
        LET valid   == valid_profiles(profiles)
            invalid == invalid_profiles(profiles)
        IN  /\ valid_profile_count(profiles) = Len(valid)
            /\ Listed(valid) \cap Listed(invalid) = { }
            /\ Listed(valid) = { profiles[n] : n \in { m \in DOMAIN profiles : profiles[m].is_valid } }
            /\ Listed(invalid) = { profiles[n] : n \in { m \in DOMAIN profiles : ~profiles[m].is_valid } }
            /\ valid_profile_count(profiles) + Len(invalid) = Cardinality(DOMAIN profiles)

\* C20 witness: a registry with an invalid profile and with a valid
\* profile that carries a message, each in its own view.
C20_Witness ==
    /\ constructed
    /\ Len(invalid_profiles(profiles)) = 1
    /\ \E i \in 1..Len(valid_profiles(profiles)) :
           is_some(valid_profiles(profiles)[i].error_message)
    /\ valid_profile_count(profiles) = 2

----------------------------------------------------------------------------
(* The passes of validate_all_profiles, the walk, the failed reload, the    *)
(* ignored lines and the selection (C21 to C30).                            *)

\* the first loop of validate_all_profiles is over and every profile has
\* the type the classification gives it
AllClassified ==
    /\ in_validate_all.pc \in { "validate", "walk" }
    /\ \A n \in DOMAIN profiles :
           profiles[n].profile_type = determine_profile_type(profiles, n)

\* C21: within validate_all no verdict is recorded on a profile, no chain
\* walk begins and no iteration of a walk runs before every profile of the
\* registry has been given its type by the first pass; so the test for SSO
\* in a walk reads a type the first pass has assigned.
C21_ClassifiedBeforeValidated ==
    [][ ( \/ \E n \in DOMAIN profiles :
                 \/ profiles'[n].is_valid # profiles[n].is_valid
                 \/ profiles'[n].error_message # profiles[n].error_message
          \/ in_validate_all'.pc = "walk"
          \/ in_validate_all.pc = "walk" )
        => AllClassified ]_vars

\* C21 witness: a walk is about to test a referenced profile that the first
\* pass has classified SSO.
C21_Witness ==
    /\ in_validate_all.pc = "walk"
    /\ contains_key(profiles, in_validate_all.current)
    /\ ~vec_contains(in_validate_all.visited, in_validate_all.current)
    /\ profiles[in_validate_all.current].profile_type = "Sso"
    /\ ~profiles[in_validate_all.current].has_static_credentials

\* following source_profile from current, through existing profiles that
\* are not in visited and end no walk, reaches an existing profile that is
\* not in visited, ends no walk and names no source
RECURSIVE ReachesOpenEnd(_, _, _)
ReachesOpenEnd(p, visited, current) ==
    /\ current \notin visited
    /\ contains_key(p, current)
    /\ ~Terminates(p, current)
    /\ IF is_some(p[current].source_profile)
       THEN ReachesOpenEnd(p, visited \cup { current },
                           unwrap(p[current].source_profile))
       ELSE TRUE

\* C22: an AssumeRole profile whose walk reaches an existing profile, not
\* visited before, that has no static credentials, is not SSO, has no
\* credential_source, is not default and has no source_profile, is valid
\* with no error message.
C22_OpenEndAccepted ==
    Validated =>
        \A n \in DOMAIN profiles :
            (/\ profiles[n].profile_type = "AssumeRole"
             /\ is_some(profiles[n].source_profile)
             /\ ReachesOpenEnd(profiles, { n }, unwrap(profiles[n].source_profile)))
            => (profiles[n].is_valid /\ is_none(profiles[n].error_message))

\* C22 witness: a -> b -> c, c an assume-role profile without any source
\* (itself invalid), and a is valid.
C22_Witness ==
    /\ Validated
    /\ { N_a, N_b, N_c } \subseteq DOMAIN profiles
    /\ profiles[N_a].profile_type = "AssumeRole"
    /\ profiles[N_a].source_profile = Some(N_b)
    /\ profiles[N_b].source_profile = Some(N_c)
    /\ ReachesOpenEnd(profiles, { N_a }, N_b)
    /\ ~profiles[N_c].is_valid
    /\ profiles[N_a].is_valid

\* a step of reload on a config file that cannot be read, the credentials
\* file being absent or read
ReloadFailsOnConfig ==
    /\ constructed
    /\ last_call' = "reload"
    /\ credentials_file' = credentials_file
    /\ config_file' = config_file
    /\ config_file.status = "unreadable"
    /\ credentials_file.status # "unreadable"

\* a record as load_profiles creates it, before any config key and before
\* validate_all_profiles
AsCreated(r, name) ==
    /\ r.name = name
    /\ r.profile_type = IF name = S_default THEN "Default" ELSE "Unknown"
    /\ r.is_valid
    /\ is_none(r.error_message)
    /\ \A fk \in ConfigFieldKeys : is_none(r[fk[1]])

\* C23 as stated: a reload that fails on the read of the config file
\* leaves the registry empty.
C23_Original ==
    [][ ReloadFailsOnConfig => profiles' = EmptyMap ]_vars

\* C23: a reload that fails on the read of the config file returns Err and
\* leaves the registry neither as it was before the reload nor empty: its
\* keys are default and the section names of the credentials file, each
\* record as load_profiles creates it, not classified and not validated.
C23_FailedReloadLeavesPartialLoad ==
    [][ ReloadFailsOnConfig =>
            /\ last_result' = "Err"
            /\ DOMAIN profiles' = { S_default } \cup SectionNames(credentials_file)
            /\ \A n \in DOMAIN profiles' : AsCreated(profiles'[n], n) ]_vars

\* C23 witness: a reload has failed on the config file; the registry holds
\* default and a from the credentials file, and z, selected while it was
\* in the registry, is gone.
C23_Witness ==
    /\ constructed
    /\ last_call = "reload"
    /\ last_result = "Err"
    /\ config_file.status = "unreadable"
    /\ lines_read(credentials_file) = << header_line(N_a) >>
    /\ DOMAIN profiles = { S_default, N_a }
    /\ current_profile = Some(N_z)

\* no name is twice in the list
NoDuplicate(list) ==
    \A i, j \in 1..Len(list) : i # j => list[i] # list[j]

\* what is left of new(): a natural number that is 0 when new() has
\* returned; n is the number of profiles
WorkLeft ==
    LET n  == Cardinality(DOMAIN profiles)
        at == in_validate_all
    IN  CASE at.pc = "walk"     -> Len(at.names) * (n + 2) + (n - Len(at.visited)) + 1
          [] at.pc = "validate" -> Len(at.names) * (n + 2) + n + 2
          [] at.pc = "classify" -> (n + 1) * (n + 2) + 1 + Len(at.names)
          [] OTHER              -> 0

\* C24: in every walk the visited list holds no name twice and only keys of
\* the registry, so it is never longer than the registry; each iteration
\* that goes on appends one name to it, so a walk returns within (number of
\* profiles + 1) iterations, cycles and self-references included; and every
\* step of validate_all brings down a natural number, so validate_all ends.
C24_WalkTerminates ==
    [][ /\ in_validate_all'.pc = "walk" =>
              /\ NoDuplicate(in_validate_all'.visited)
              /\ \A i \in 1..Len(in_validate_all'.visited) :
                     contains_key(profiles', in_validate_all'.visited[i])
              /\ Len(in_validate_all'.visited) <= Cardinality(DOMAIN profiles')
        /\ (in_validate_all.pc = "walk" /\ in_validate_all'.pc = "walk") =>
              in_validate_all'.visited =
                  Append(in_validate_all.visited, in_validate_all.current)
        /\ in_validate_all.pc # "idle" =>
              (WorkLeft' < WorkLeft /\ WorkLeft' >= 0)
      ]_vars

\* C24 witness: the walk from default has gone through every profile of the
\* registry and is back at default, where it will end.
C24_Witness ==
    /\ in_validate_all.pc = "walk"
    /\ Len(in_validate_all.visited) = Cardinality(DOMAIN profiles)
    /\ Len(in_validate_all.visited) = 3
    /\ vec_contains(in_validate_all.visited, in_validate_all.current)

\* two registries hold the same records under the same names
SameRegistry(p, q) ==
    /\ DOMAIN p = DOMAIN q
    /\ \A n \in DOMAIN p : p[n] = q[n]

\* line i of the config file is a section header
ConfigHeaderAt(i) ==
    LET line == trim(lines_read(config_file)[i])
    IN  ~skipped_line(line) /\ is_header(line)

\* the text between the brackets of a header is [default] or [profile NAME]
NamesProfile(section) ==
    section = S_default \/ starts_with(section, S_profile_prefix)

\* line k of the config file is neither blank, comment nor header, and lies
\* before every header or under a header that names no profile
OutsideProfileSection(k) ==
    LET line    == trim(lines_read(config_file)[k])
        headers == { j \in 1..(k - 1) : ConfigHeaderAt(j) }
    IN  /\ ~skipped_line(line)
        /\ ~is_header(line)
        /\ \/ headers = { }
           \/ LET last == CHOOSE j \in headers : \A i \in headers : i <= j
              IN  ~NamesProfile(between_brackets(trim(lines_read(config_file)[last])))

\* line k is neither blank, comment nor header, and has no "=" or a key
\* outside the recognized set
UnrecognizedLine(k) ==
    LET line == trim(lines_read(config_file)[k])
    IN  /\ ~skipped_line(line)
        /\ ~is_header(line)
        /\ \/ is_none(split_once(line, "="))
           \/ \A fk \in ConfigFieldKeys : trim(unwrap(split_once(line, "="))[1]) # fk[2]

\* line k is a header that names no profile
UnattachedHeader(k) ==
    /\ ConfigHeaderAt(k)
    /\ ~NamesProfile(between_brackets(trim(lines_read(config_file)[k])))

\* C25: in the config pass a line that lies before every header, under an
\* sso-session header or under any other header that is neither [default]
\* nor [profile NAME], a line whose key is not recognized, a line without
\* "=", and such a header itself, leave the registry exactly as it was: no
\* record changes (the profile of the section before included) and none is
\* created.
C25_IgnoredLinesChangeNothing ==
    Validated =>
        LET states == ConfigPassStates
        IN  \A k \in 1..Len(lines_read(config_file)) :
                (OutsideProfileSection(k) \/ UnrecognizedLine(k) \/ UnattachedHeader(k))
                => SameRegistry(states[k + 1].profiles, states[k].profiles)

\* C25 witness: [profile a], then a header [a], then region and an unknown
\* key; a is in the registry without a region, and nothing else is but
\* default.
C25_Witness ==
    /\ Validated
    /\ lines_read(config_file) =
           << profile_header(N_a), header_line(N_a),
              kv_line(K_region, V_region), kv_line(UnknownKey, << "j" >>) >>
    /\ DOMAIN profiles = { S_default, N_a }
    /\ is_none(profiles[N_a].region)

\* C26 as stated: in every state of a manager current_profile is unset or
\* names a key of the registry, and current_profile_data returns a record
\* whenever current_profile is set.
C26_Original ==
    constructed =>
        \/ is_none(current_profile)
        \/ /\ contains_key(profiles, unwrap(current_profile))
           /\ is_some(current_profile_data(profiles, current_profile))

\* C27: whatever the orders in which the two loops of validate_all_profiles
\* went through the keys, when new() returns every profile has the
\* profile_type, is_valid and error_message that one fixed order gives it.
C27_OrderIndependent ==
    (constructed /\ last_call = "new" /\ last_result = "Ok") =>
        LET loaded  == load_profiles(EmptyMap, credentials_file, config_file).profiles
            outcome == validate_all_profiles(loaded)
        IN  /\ DOMAIN profiles = DOMAIN outcome
            /\ \A n \in DOMAIN profiles :
                   /\ profiles[n].profile_type = outcome[n].profile_type
                   /\ profiles[n].is_valid = outcome[n].is_valid
                   /\ profiles[n].error_message = outcome[n].error_message

\* new() has returned on files where a assumes a role through b and b
\* through a: each walk read the record of the other profile, and both end
\* on the cycle, each with the message of its own walk
C27_Witness ==
    /\ constructed /\ last_call = "new" /\ last_result = "Ok"
    /\ in_validate_all = NotValidating
    /\ contains_key(profiles, N_a) /\ contains_key(profiles, N_b)
    /\ profiles[N_a].profile_type = "AssumeRole"
    /\ profiles[N_a].source_profile = Some(N_b)
    /\ profiles[N_b].profile_type = "AssumeRole"
    /\ profiles[N_b].source_profile = Some(N_a)
    /\ ~profiles[N_a].is_valid
    /\ ~profiles[N_b].is_valid
    /\ profiles[N_a].error_message # profiles[N_b].error_message

\* the registry p with the is_valid flag of every profile named in S turned over
WithFlagsTurned(p, S) ==
    [ n \in DOMAIN p |-> IF n \in S THEN [p[n] EXCEPT !.is_valid = ~@] ELSE p[n] ]

\* C28: validity does not propagate along a chain. The verdict recorded on
\* an AssumeRole profile is the one validate_profile gives whatever the
\* is_valid flags of the profiles are, and a profile whose source is an SSO
\* profile, or is default, is valid whether or not that source is.
C28_ValidityNotPropagated ==
    Validated =>
        \A n \in DOMAIN profiles :
            profiles[n].profile_type = "AssumeRole" =>
                /\ \A S \in SUBSET (DOMAIN profiles) :
                       validate_profile(WithFlagsTurned(profiles, S), n)
                           = << profiles[n].is_valid, profiles[n].error_message >>
                /\ ( /\ is_some(profiles[n].role_arn)
                     /\ is_some(profiles[n].source_profile)
                     /\ unwrap(profiles[n].source_profile) # n
                     /\ contains_key(profiles, unwrap(profiles[n].source_profile))
                     /\ \/ profiles[unwrap(profiles[n].source_profile)].profile_type = "Sso"
                        \/ unwrap(profiles[n].source_profile) = S_default )
                   => profiles[n].is_valid

\* both examples in one registry: b assumes a role through c, an SSO profile
\* with fields missing, and a through default, which assumes a role through
\* a; b and a are valid, c and default are not
C28_Witness ==
    /\ Validated
    /\ contains_key(profiles, N_a) /\ contains_key(profiles, N_b)
    /\ contains_key(profiles, N_c) /\ contains_key(profiles, S_default)
    /\ profiles[N_b].profile_type = "AssumeRole"
    /\ profiles[N_b].source_profile = Some(N_c)
    /\ profiles[N_c].profile_type = "Sso"
    /\ profiles[N_b].is_valid
    /\ ~profiles[N_c].is_valid
    /\ profiles[N_a].profile_type = "AssumeRole"
    /\ profiles[N_a].source_profile = Some(S_default)
    /\ profiles[S_default].profile_type = "AssumeRole"
    /\ profiles[S_default].source_profile = Some(N_a)
    /\ profiles[N_a].is_valid
    /\ ~profiles[S_default].is_valid

\* C29 as stated: for every section of the credentials file that holds both
\* keys, the record registered for the section's header (under the text
\* between the brackets) is the one with has_static_credentials = true,
\* padded names included.
C29_Original ==
    (constructed /\ last_result = "Ok") =>
        \A i \in 1..Len(lines_read(credentials_file)) :
            ( /\ CredentialsHeaderAt(i)
              /\ SectionSetsKey(i, K_aws_access_key_id)
              /\ SectionSetsKey(i, K_aws_secret_access_key) )
            => LET registered == between_brackets(trim(lines_read(credentials_file)[i]))
               IN  /\ contains_key(profiles, registered)
                   /\ profiles[registered].has_static_credentials

\* the registry p with the source_profile of n naming source instead
WithSource(p, n, source) == [p EXCEPT ![n].source_profile = Some(source)]

\* C30: the walk is run for AssumeRole profiles only. A profile of another
\* type that has source_profile set has the same profile_type, is_valid and
\* error_message as validate_all_profiles gives it when its source_profile
\* names any other profile of the registry, a missing profile or the
\* profile itself.
C30_SourceIgnoredOutsideAssumeRole ==
    Validated =>
        LET loaded == load_profiles(EmptyMap, credentials_file, config_file).profiles
        IN  \A n \in DOMAIN profiles :
                (profiles[n].profile_type # "AssumeRole" /\ is_some(profiles[n].source_profile))
                => \A source \in DOMAIN profiles \cup { N_m } :
                       LET outcome == validate_all_profiles(WithSource(loaded, n, source))
                       IN  /\ outcome[n].profile_type = profiles[n].profile_type
                           /\ outcome[n].is_valid = profiles[n].is_valid
                           /\ outcome[n].error_message = profiles[n].error_message

\* a has no role_arn and names b as its source, b assumes a role through a:
\* b is invalid by the cycle b -> a -> b, and a, of type Unknown, is valid
\* with the note of its type only
C30_Witness ==
    /\ Validated
    /\ contains_key(profiles, N_a) /\ contains_key(profiles, N_b)
    /\ profiles[N_a].profile_type = "Unknown"
    /\ profiles[N_a].source_profile = Some(N_b)
    /\ profiles[N_b].profile_type = "AssumeRole"
    /\ profiles[N_b].source_profile = Some(N_a)
    /\ ~profiles[N_b].is_valid
    /\ profiles[N_a].is_valid
    /\ profiles[N_a].error_message = Some(M_unknown)

====
